---- MODULE Spec2Model ----
(***************************************************************************)
(* Continuous collision detection and event-driven resolution of moving    *)
(* balls and static walls (Philonoist/balls).                              *)
(*                                                                         *)
(* Arithmetic.  The program computes in floating point.  The model is      *)
(* fixed-point: every length and every time is an integer number of        *)
(* 1/Scale units, velocities are integers (length units per time unit, so  *)
(* position + velocity * dt needs no rescaling).  A quotient or a square   *)
(* root that does not fall on the grid is rounded as stated at the         *)
(* operator that computes it.  EPSILON (1e-5) is smaller than the grid     *)
(* step: x - EPSILON and x + EPSILON are modelled by the comparisons and   *)
(* the floor/ceiling they decide (see FloorLessEps, CeilPlusEps,           *)
(* GtMinusEps).                                                            *)
(***************************************************************************)
EXTENDS Integers, Sequences, FiniteSets, TLC

\* ----------------------------------------------------------------- bounds
Scale == 10          \* grid steps per unit of length and of time
NumBalls == 3        \* balls in the world
NumFrames == 2       \* frames simulated before the clock is stopped
width == 60          \* GenerationConfig.width of the modelled world
height == 40         \* GenerationConfig.height of the modelled world
MaxPassEvents == 16  \* entries one handling pass pops at most
MaxCalls == 3        \* calls of advance_single_ball applied to one ball
MaxTarget == 4       \* latest target time of such a call, in grid steps

\* ------------------------------------------------------ program constants
CELL_SIZE == 20
MAX_CELL == 100
SPEED_CAP == 1000

\* time_delta of SimulationConfig: one unit of time per frame
time_delta == Scale

\* ---------------------------------------------------------------- vectors
Vec(x, y) == <<x, y>>
VAdd(u, v) == <<u[1] + v[1], u[2] + v[2]>>
VSub(u, v) == <<u[1] - v[1], u[2] - v[2]>>
VMul(u, k) == <<u[1] * k, u[2] * k>>
Dot(u, v) == u[1] * v[1] + u[2] * v[2]
Min2(a, b) == IF a <= b THEN a ELSE b
Max2(a, b) == IF a >= b THEN a ELSE b
Inf(u, v) == <<Min2(u[1], v[1]), Min2(u[2], v[2])>>
Sup(u, v) == <<Max2(u[1], v[1]), Max2(u[2], v[2])>>
Sgn(x) == IF x > 0 THEN 1 ELSE IF x < 0 THEN -1 ELSE 0
Abs(x) == IF x >= 0 THEN x ELSE -x

\* floor(n / d) for d # 0
FloorDiv(n, d) == IF d > 0 THEN n \div d ELSE (-n) \div (-d)
\* ceil(n / d) for d # 0
CeilDiv(n, d) == -FloorDiv(-n, d)
\* n / d rounded to the nearest grid value, halves away from zero
RoundDiv(n, d) ==
    LET an == Abs(n)
        ad == Abs(d)
        q == (2 * an + ad) \div (2 * ad)
    IN IF Sgn(n) * Sgn(d) >= 0 THEN q ELSE -q

RECURSIVE SqrtBracket(_, _, _)
\* least s in lo..hi with s * s >= n, by bisection
SqrtBracket(n, lo, hi) ==
    IF lo >= hi THEN lo
    ELSE LET mid == (lo + hi) \div 2
         IN IF mid * mid >= n THEN SqrtBracket(n, lo, mid)
            ELSE SqrtBracket(n, mid + 1, hi)
\* sqrt(n) rounded up to the grid (n >= 0)
CeilSqrt(n) == SqrtBracket(n, 0, 46340)

\* ------------------------------------------------------------ comparisons
\* floor((m - EPSILON) / c) for a grid value m and a cell width c
FloorLessEps(m, c) == FloorDiv(m - 1, c)
\* ceil((m + EPSILON) / c) for a grid value m and a cell width c
CeilPlusEps(m, c) == FloorDiv(m, c) + 1
\* x > -EPSILON for a grid value x
GtMinusEps(x) == x >= 0

\* ------------------------------------------------------------------ types
\* Option<T>: None is the empty tuple, Some(x) the one-element tuple
None == <<>>
Some(x) == <<x>>
IsSome(o) == Len(o) = 1
Unwrap(o) == o[1]

BallIds == 1..NumBalls
WallIds == (NumBalls + 1)..(NumBalls + 4)

\* GenerationalCollisionEntity
GCE(e, ct, g) == [entity |-> e, collision_type |-> ct, generation |-> g]

\* GenerationalCollisionEntity::next
next(gce) ==
    IF gce.collision_type = "Ball"
    THEN [gce EXCEPT !.generation = gce.generation + 1]
    ELSE gce

\* Collidable::Ball / Collidable::Wall
CBall(b) == [type |-> "Ball", body |-> b]
CWall(w) == [type |-> "Wall", body |-> w]

\* Wall::normal, for the axis-parallel walls init_walls creates: the unit
\* vector along (-diff.y, diff.x)
normal(w) ==
    LET diff == VSub(w.p1, w.p0)
    IN <<Sgn(-diff[2]), Sgn(diff[1])>>

\* ---------------------------------------------------------------- advance
Trail(p0, p1, t0, t1) ==
    [position0 |-> p0, position1 |-> p1, initial_time |-> t0, final_time |-> t1]

\* mutant: the ball keeps its initial_time
advance_keeps_initial_time(b, tr, nt) ==
    LET new_position == VAdd(b.position, VMul(b.velocity, nt - b.initial_time))
    IN [ball |-> [b EXCEPT !.position = new_position],
        trails |-> IF nt > b.initial_time
                   THEN Append(tr, Trail(b.position, new_position, b.initial_time, nt))
                   ELSE tr]

\* mutant: a trail segment is appended also when no time has passed
advance_always_trails(b, tr, nt) ==
    LET new_position == VAdd(b.position, VMul(b.velocity, nt - b.initial_time))
    IN [ball |-> [b EXCEPT !.position = new_position, !.initial_time = nt],
        trails |-> Append(tr, Trail(b.position, new_position, b.initial_time, nt))]

\* advance_single_ball(ball, trails, next_time): the ball and its trail log
\* after the call
advance_single_ball(b, tr, nt) ==
    LET new_position == VAdd(b.position, VMul(b.velocity, nt - b.initial_time))
    IN [ball |-> [b EXCEPT !.position = new_position, !.initial_time = nt],
        trails |-> IF nt > b.initial_time
                   THEN Append(tr, Trail(b.position, new_position, b.initial_time, nt))
                   ELSE tr]

\* ------------------------------------------------------------ broad phase
CellWidth == CELL_SIZE * Scale

get_cell_range_for_movement(c, nt) ==
    IF c.type = "Ball"
    THEN LET b == c.body
             dt == nt - b.initial_time
             new_position == VAdd(b.position, VMul(b.velocity, dt))
             lo == Inf(b.position, new_position)
             hi == Sup(b.position, new_position)
         IN <<Max2(0, FloorLessEps(lo[1] - b.radius, CellWidth)),
              Min2(MAX_CELL, CeilPlusEps(hi[1] + b.radius, CellWidth)) + 1,
              Max2(0, FloorLessEps(lo[2] - b.radius, CellWidth)),
              Min2(MAX_CELL, CeilPlusEps(hi[2] + b.radius, CellWidth)) + 1>>
    ELSE LET w == c.body
             lo == Inf(w.p0, w.p1)
             \* sup(p0, p1 + EPSILON): EPSILON counts where p1 is the larger
             hix == IF w.p1[1] >= w.p0[1] THEN CeilPlusEps(w.p1[1], CellWidth)
                    ELSE CeilDiv(w.p0[1], CellWidth)
             hiy == IF w.p1[2] >= w.p0[2] THEN CeilPlusEps(w.p1[2], CellWidth)
                    ELSE CeilDiv(w.p0[2], CellWidth)
         IN <<Max2(0, FloorLessEps(lo[1], CellWidth)),
              Min2(MAX_CELL, hix) + 1,
              Max2(0, FloorLessEps(lo[2], CellWidth)),
              Min2(MAX_CELL, hiy) + 1>>

\* the cells i0..i1, j0..j1 (upper ends excluded) of a cell range
CellsOf(box) ==
    {<<i, j>> : i \in box[1]..(box[2] - 1), j \in box[3]..(box[4] - 1)}

\* ----------------------------------------------------------- narrow phase
\* mutant: only a strictly positive d * a counts as moving away (a zero a
\* then leaves the quotients non-finite: 0 stands for them)
solve_collision_ball_wall_strict(b, w) ==
    LET n == normal(w)
        a == Dot(n, b.velocity)
        d == Dot(n, VSub(b.position, w.p0))
    IN IF d * a > 0 THEN None
       ELSE IF a = 0 THEN Some(<<0, 0>>)
       ELSE Some(<<FloorDiv(-(d - b.radius), a) + b.initial_time,
                   FloorDiv(-d, a) + b.initial_time>>)

\* entry time floor((-(d - r)) / a) and touch time floor(-d / a), both
\* shifted by the ball's initial_time
solve_collision_ball_wall(b, w) ==
    LET n == normal(w)
        a == Dot(n, b.velocity)
        d == Dot(n, VSub(b.position, w.p0))
        b0 == d - b.radius
        b1 == d
    IN IF d * a >= 0 THEN None
       ELSE Some(<<FloorDiv(-b0, a) + b.initial_time,
                   FloorDiv(-b1, a) + b.initial_time>>)

\* mutant: the larger root is reported as the entry time
solve_collision_ball_ball_exit(b, o) ==
    LET dv == VSub(b.velocity, o.velocity)
        dx == VSub(b.position, o.position)
        affine == VSub(VSub(b.position, VMul(b.velocity, b.initial_time)),
                       VSub(o.position, VMul(o.velocity, o.initial_time)))
        qa == Dot(dv, dv)
        qb == Dot(dv, affine) * 2
        qc == Dot(affine, affine) - (b.radius + o.radius) * (b.radius + o.radius)
        disc == qb * qb - 4 * qa * qc
    IN IF GtMinusEps(Dot(dv, dx)) THEN None
       ELSE IF disc < 0 THEN None
       ELSE Some(<<FloorDiv(-qb + CeilSqrt(disc), 2 * qa), FloorDiv(-qb, 2 * qa)>>)

\* mutant: only a strictly positive projection counts as moving away (a
\* zero leading coefficient then leaves the quotient undefined: 0 stands for
\* it)
solve_collision_ball_ball_strict(b, o) ==
    LET dv == VSub(b.velocity, o.velocity)
        dx == VSub(b.position, o.position)
        affine == VSub(VSub(b.position, VMul(b.velocity, b.initial_time)),
                       VSub(o.position, VMul(o.velocity, o.initial_time)))
        qa == Dot(dv, dv)
        qb == Dot(dv, affine) * 2
        qc == Dot(affine, affine) - (b.radius + o.radius) * (b.radius + o.radius)
        disc == qb * qb - 4 * qa * qc
    IN IF Dot(dv, dx) > 0 THEN None
       ELSE IF disc < 0 THEN None
       ELSE IF qa = 0 THEN Some(<<0, 0>>)
       ELSE Some(<<FloorDiv(-qb - CeilSqrt(disc), 2 * qa), FloorDiv(-qb, 2 * qa)>>)

\* root0 is the smaller root of a t^2 + b t + c rounded down to the grid
\* (the square root is rounded up, the quotient down), mid the vertex time
\* rounded down
solve_collision_ball_ball(b, o) ==
    LET dv == VSub(b.velocity, o.velocity)
        dx == VSub(b.position, o.position)
        affine0 == VSub(b.position, VMul(b.velocity, b.initial_time))
        affine1 == VSub(o.position, VMul(o.velocity, o.initial_time))
        affine == VSub(affine0, affine1)
        proj == Dot(dv, dx)
        qa == Dot(dv, dv)
        qb == Dot(dv, affine) * 2
        qc == Dot(affine, affine) - (b.radius + o.radius) * (b.radius + o.radius)
        disc == qb * qb - 4 * qa * qc
    IN IF GtMinusEps(proj) THEN None
       ELSE IF disc < 0 THEN None
       ELSE LET sqrt_disc == CeilSqrt(disc)
                root0 == FloorDiv(-qb - sqrt_disc, 2 * qa)
                mid == FloorDiv(-qb, 2 * qa)
            IN Some(<<root0, mid>>)

\* mutant: a wall given first is not solved against a ball given second
solve_collision_ball_first(c0, c1) ==
    IF c0.type = "Ball"
    THEN IF c1.type = "Ball"
         THEN solve_collision_ball_ball(c0.body, c1.body)
         ELSE solve_collision_ball_wall(c0.body, c1.body)
    ELSE None

\* mutant: two walls are reported to touch at all times
solve_collision_walls_touch(c0, c1) ==
    IF c0.type = "Ball"
    THEN IF c1.type = "Ball"
         THEN solve_collision_ball_ball(c0.body, c1.body)
         ELSE solve_collision_ball_wall(c0.body, c1.body)
    ELSE IF c1.type = "Ball"
         THEN solve_collision_ball_wall(c1.body, c0.body)
         ELSE Some(<<0, NumFrames * time_delta>>)

solve_collision(c0, c1) ==
    IF c0.type = "Ball"
    THEN IF c1.type = "Ball"
         THEN solve_collision_ball_ball(c0.body, c1.body)
         ELSE solve_collision_ball_wall(c0.body, c1.body)
    ELSE IF c1.type = "Ball"
         THEN solve_collision_ball_wall(c1.body, c0.body)
         ELSE None

segments_intersect(x, y) == x[2] >= y[1] /\ y[2] >= x[1]

\* f32::clamp
clamp(t, lo, hi) == IF t < lo THEN lo ELSE IF t > hi THEN hi ELSE t

\* ---------------------------------------------------------- spatial hash
\* CollisionDetectionData: spatial_buckets is the set of <<cell, entity>>
\* registrations, last_box a function from registered entities to cell
\* ranges, collisions_events the set of queued [item, priority] entries
\* (one per item, as in PriorityQueue; entry_time records the time the
\* entry was scheduled for and is read by no operation)
EmptyData ==
    [spatial_buckets |-> {}, last_box |-> <<>>, collisions_events |-> {}]

fetch_collidable_copy(balls, walls, gce) ==
    IF gce.collision_type = "Ball"
    THEN CBall(balls[gce.entity])
    ELSE CWall(walls[gce.entity])

\* mutant: the entry time itself as the priority, so that pop returns the
\* latest event first
event_priority_unnegated(t0, time, nt) == clamp(t0, time, nt)

\* the priority add gives an event whose solved entry time is t0
event_priority(t0, time, nt) == -clamp(t0, time, nt)

\* the time add schedules an event for: its entry time within the window
event_time(t0, time, nt) == clamp(t0, time, nt)

\* PriorityQueue::push for a set of new entries with distinct items: an
\* entry whose item is already queued is replaced
push_all(queue, entries) ==
    {e \in queue : \A n \in entries : n.item # e.item} \cup entries

\* the occupants add collects from the covered cells
candidates(cd, cells) ==
    {q[2] : q \in {r \in cd.spatial_buckets : r[1] \in cells}}

\* mutant: the body is inserted into its cells before the occupants are
\* collected, and every occupant is queued at the start of the window
\* without being solved
add_inserted_first(cd, balls, walls, entity, collidable, time, nt) ==
    LET box == get_cell_range_for_movement(collidable, nt)
        cells == CellsOf(box)
        buckets == cd.spatial_buckets \cup {<<c, entity>> : c \in cells}
        results == candidates([cd EXCEPT !.spatial_buckets = buckets], cells)
        entries == {[item |-> <<entity, c>>,
                     priority |-> event_priority(time, time, nt),
                     entry_time |-> event_time(time, time, nt)] :
                       c \in results}
    IN [spatial_buckets |-> buckets,
        last_box |-> (entity :> box) @@ cd.last_box,
        collisions_events |-> push_all(cd.collisions_events, entries)]

\* mutant: every solved candidate is pushed, keyed by its entry time as solved
add_unwindowed(cd, balls, walls, entity, collidable, time, nt) ==
    LET box == get_cell_range_for_movement(collidable, nt)
        cells == CellsOf(box)
        results == candidates(cd, cells)
        solved == [c \in results |->
                     solve_collision(collidable, fetch_collidable_copy(balls, walls, c))]
        hits == {c \in results : IsSome(solved[c])}
        entries == {[item |-> <<entity, c>>,
                     priority |-> -Unwrap(solved[c])[1],
                     entry_time |-> Unwrap(solved[c])[1]] :
                       c \in hits}
    IN [spatial_buckets |-> cd.spatial_buckets \cup {<<c, entity>> : c \in cells},
        last_box |-> (entity :> box) @@ cd.last_box,
        collisions_events |-> push_all(cd.collisions_events, entries)]

\* mutant: a wall is inserted without solving against the occupants
add_walls_unsolved(cd, balls, walls, entity, collidable, time, nt) ==
    LET box == get_cell_range_for_movement(collidable, nt)
        cells == CellsOf(box)
        results == candidates(cd, cells)
        solved == [c \in results |->
                     solve_collision(collidable, fetch_collidable_copy(balls, walls, c))]
        hits == {c \in results :
                   /\ collidable.type = "Ball"
                   /\ IsSome(solved[c])
                   /\ segments_intersect(Unwrap(solved[c]), <<time, nt>>)}
        entries == {[item |-> <<entity, c>>,
                     priority |-> event_priority(Unwrap(solved[c])[1], time, nt),
                     entry_time |-> event_time(Unwrap(solved[c])[1], time, nt)] :
                       c \in hits}
    IN [spatial_buckets |-> cd.spatial_buckets \cup {<<c, entity>> : c \in cells},
        last_box |-> (entity :> box) @@ cd.last_box,
        collisions_events |-> push_all(cd.collisions_events, entries)]

\* mutant: a body is not inserted into the cells that are already occupied
add_not_inserted(cd, balls, walls, entity, collidable, time, nt) ==
    LET box == get_cell_range_for_movement(collidable, nt)
        cells == CellsOf(box)
        occupied == {q[1] : q \in cd.spatial_buckets}
        results == candidates(cd, cells)
        solved == [c \in results |->
                     solve_collision(collidable, fetch_collidable_copy(balls, walls, c))]
        hits == {c \in results :
                   /\ IsSome(solved[c])
                   /\ segments_intersect(Unwrap(solved[c]), <<time, nt>>)}
        entries == {[item |-> <<entity, c>>,
                     priority |-> event_priority(Unwrap(solved[c])[1], time, nt),
                     entry_time |-> event_time(Unwrap(solved[c])[1], time, nt)] :
                       c \in hits}
    IN [spatial_buckets |->
          cd.spatial_buckets \cup {<<c, entity>> : c \in cells \ occupied},
        last_box |-> (entity :> box) @@ cd.last_box,
        collisions_events |-> push_all(cd.collisions_events, entries)]

\* CollisionDetectionData::add
add(cd, balls, walls, entity, collidable, time, nt) ==
    LET box == get_cell_range_for_movement(collidable, nt)
        cells == CellsOf(box)
        results == candidates(cd, cells)
        solved == [c \in results |->
                     solve_collision(collidable, fetch_collidable_copy(balls, walls, c))]
        hits == {c \in results :
                   /\ IsSome(solved[c])
                   /\ segments_intersect(Unwrap(solved[c]), <<time, nt>>)}
        entries == {[item |-> <<entity, c>>,
                     priority |-> event_priority(Unwrap(solved[c])[1], time, nt),
                     entry_time |-> event_time(Unwrap(solved[c])[1], time, nt)] :
                       c \in hits}
    IN [spatial_buckets |-> cd.spatial_buckets \cup {<<c, entity>> : c \in cells},
        last_box |-> (entity :> box) @@ cd.last_box,
        collisions_events |-> push_all(cd.collisions_events, entries)]

\* mutant: the entity is erased from the first cell of its range only
remove_first_cell(cd, entity) ==
    IF entity \in DOMAIN cd.last_box
    THEN LET box == cd.last_box[entity]
         IN [cd EXCEPT
               !.spatial_buckets = {q \in @ : ~(q[1] = <<box[1], box[3]>> /\ q[2] = entity)},
               !.last_box = [g \in (DOMAIN @) \ {entity} |-> @[g]]]
    ELSE cd

\* mutant: remove forgets the cell range and leaves the buckets as they are
remove_keeps_buckets(cd, entity) ==
    IF entity \in DOMAIN cd.last_box
    THEN [cd EXCEPT !.last_box = [g \in (DOMAIN @) \ {entity} |-> @[g]]]
    ELSE cd

\* CollisionDetectionData::remove
remove(cd, entity) ==
    IF entity \in DOMAIN cd.last_box
    THEN LET cells == CellsOf(cd.last_box[entity])
         IN [cd EXCEPT
               !.spatial_buckets = {q \in @ : ~(q[1] \in cells /\ q[2] = entity)},
               !.last_box = [g \in (DOMAIN @) \ {entity} |-> @[g]]]
    ELSE cd

\* ------------------------------------------------------------- resolution
\* velocity scaled to the speed cap when its norm exceeds it
cap_speed(v) ==
    IF Dot(v, v) > SPEED_CAP * SPEED_CAP
    THEN LET norm == CeilSqrt(Dot(v, v))
         IN <<RoundDiv(v[1] * SPEED_CAP, norm), RoundDiv(v[2] * SPEED_CAP, norm)>>
    ELSE v

\* mutant: the ball is advanced and its generation incremented, but its
\* velocity is never reflected
collide_ball_wall_unreflected(b, tr, w, t) ==
    LET adv == advance_single_ball(b, tr, t)
    IN <<Some([ball |-> [adv.ball EXCEPT !.collision_generation = @ + 1],
               trails |-> adv.trails]), None>>

\* mutant: the wall is pushed back by the ball and returned as updated too
collide_ball_wall_shifts_wall(b, tr, w, t) ==
    LET adv == advance_single_ball(b, tr, t)
        n == normal(w)
        proj == Dot(b.velocity, n)
        new_ball == [adv.ball EXCEPT
                       !.collision_generation = @ + 1,
                       !.velocity = IF proj < 0 THEN VSub(@, VMul(n, proj * 2)) ELSE @]
    IN <<Some([ball |-> new_ball, trails |-> adv.trails]),
         Some([wall |-> [p0 |-> VSub(w.p0, n), p1 |-> VSub(w.p1, n)]])>>

\* mutant: the ball is advanced with the velocity it has after the reflection
collide_ball_wall_reflect_first(b, tr, w, t) ==
    LET n == normal(w)
        proj == Dot(b.velocity, n)
        turned == [b EXCEPT !.velocity = IF proj < 0 THEN VSub(@, VMul(n, proj * 2)) ELSE @]
        adv == advance_single_ball(turned, tr, t)
    IN <<Some([ball |-> [adv.ball EXCEPT !.collision_generation = @ + 1],
               trails |-> adv.trails]), None>>

\* mutant: the velocity is reflected whether the ball approaches or not
collide_ball_wall_always_reflects(b, tr, w, t) ==
    LET adv == advance_single_ball(b, tr, t)
        n == normal(w)
        proj == Dot(b.velocity, n)
        new_ball == [adv.ball EXCEPT
                       !.collision_generation = @ + 1,
                       !.velocity = VSub(@, VMul(n, proj * 2))]
    IN <<Some([ball |-> new_ball, trails |-> adv.trails]), None>>

\* mutant: the ball is advanced to the event time without its trail log
collide_ball_wall_untrailed(b, tr, w, t) ==
    LET adv == advance_single_ball(b, <<>>, t)
        n == normal(w)
        proj == Dot(b.velocity, n)
        new_ball == [adv.ball EXCEPT
                       !.collision_generation = @ + 1,
                       !.velocity = IF proj < 0 THEN VSub(@, VMul(n, proj * 2)) ELSE @]
    IN <<Some([ball |-> new_ball, trails |-> tr]), None>>

\* collide_ball_wall: the updated ball (with its trail log) and no wall
collide_ball_wall(b, tr, w, t) ==
    LET adv == advance_single_ball(b, tr, t)
        n == normal(w)
        proj == Dot(b.velocity, n)
        new_ball == [adv.ball EXCEPT
                       !.collision_generation = @ + 1,
                       !.velocity = IF proj < 0 THEN VSub(@, VMul(n, proj * 2)) ELSE @]
    IN <<Some([ball |-> new_ball, trails |-> adv.trails]), None>>

\* mutant: only the first ball's generation is incremented
collide_ball_ball_one_generation(b, tr0, o, tr1, t) ==
    LET adv0 == advance_single_ball(b, tr0, t)
        adv1 == advance_single_ball(o, tr1, t)
        ball0 == [adv0.ball EXCEPT !.collision_generation = @ + 1]
        ball1 == adv1.ball
        mass0 == ball0.radius * ball0.radius
        mass1 == ball1.radius * ball1.radius
        dx == VSub(ball0.position, ball1.position)
        proj == Dot(VSub(ball0.velocity, ball1.velocity), dx)
        den == (mass0 + mass1) * Dot(dx, dx)
        imp0 == <<RoundDiv(2 * mass1 * proj * dx[1], den),
                  RoundDiv(2 * mass1 * proj * dx[2], den)>>
        imp1 == <<RoundDiv(2 * mass0 * proj * dx[1], den),
                  RoundDiv(2 * mass0 * proj * dx[2], den)>>
        v0 == IF proj < 0 THEN cap_speed(VSub(ball0.velocity, imp0)) ELSE ball0.velocity
        v1 == IF proj < 0 THEN cap_speed(VAdd(ball1.velocity, imp1)) ELSE ball1.velocity
    IN <<Some([ball |-> [ball0 EXCEPT !.velocity = v0], trails |-> adv0.trails]),
         Some([ball |-> [ball1 EXCEPT !.velocity = v1], trails |-> adv1.trails])>>

\* mutant: the impulse lacks its factor 2
collide_ball_ball_half_impulse(b, tr0, o, tr1, t) ==
    LET adv0 == advance_single_ball(b, tr0, t)
        adv1 == advance_single_ball(o, tr1, t)
        ball0 == [adv0.ball EXCEPT !.collision_generation = @ + 1]
        ball1 == [adv1.ball EXCEPT !.collision_generation = @ + 1]
        mass0 == ball0.radius * ball0.radius
        mass1 == ball1.radius * ball1.radius
        dx == VSub(ball0.position, ball1.position)
        proj == Dot(VSub(ball0.velocity, ball1.velocity), dx)
        den == (mass0 + mass1) * Dot(dx, dx)
        imp0 == <<RoundDiv(mass1 * proj * dx[1], den), RoundDiv(mass1 * proj * dx[2], den)>>
        imp1 == <<RoundDiv(mass0 * proj * dx[1], den), RoundDiv(mass0 * proj * dx[2], den)>>
        v0 == IF proj < 0 THEN cap_speed(VSub(ball0.velocity, imp0)) ELSE ball0.velocity
        v1 == IF proj < 0 THEN cap_speed(VAdd(ball1.velocity, imp1)) ELSE ball1.velocity
    IN <<Some([ball |-> [ball0 EXCEPT !.velocity = v0], trails |-> adv0.trails]),
         Some([ball |-> [ball1 EXCEPT !.velocity = v1], trails |-> adv1.trails])>>

\* mutant: the generations are incremented only when an impulse is applied
collide_ball_ball_generation_on_impulse(b, tr0, o, tr1, t) ==
    LET adv0 == advance_single_ball(b, tr0, t)
        adv1 == advance_single_ball(o, tr1, t)
        pre == Dot(VSub(b.velocity, o.velocity), VSub(adv0.ball.position, adv1.ball.position))
        ball0 == [adv0.ball EXCEPT !.collision_generation = IF pre < 0 THEN @ + 1 ELSE @]
        ball1 == [adv1.ball EXCEPT !.collision_generation = IF pre < 0 THEN @ + 1 ELSE @]
        mass0 == ball0.radius * ball0.radius
        mass1 == ball1.radius * ball1.radius
        dx == VSub(ball0.position, ball1.position)
        dv == VSub(ball0.velocity, ball1.velocity)
        proj == Dot(dv, dx)
        d2 == Dot(dx, dx)
        den == (mass0 + mass1) * d2
        imp0 == <<RoundDiv(2 * mass1 * proj * dx[1], den),
                  RoundDiv(2 * mass1 * proj * dx[2], den)>>
        imp1 == <<RoundDiv(2 * mass0 * proj * dx[1], den),
                  RoundDiv(2 * mass0 * proj * dx[2], den)>>
        v0 == IF proj < 0 THEN cap_speed(VSub(ball0.velocity, imp0)) ELSE ball0.velocity
        v1 == IF proj < 0 THEN cap_speed(VAdd(ball1.velocity, imp1)) ELSE ball1.velocity
    IN <<Some([ball |-> [ball0 EXCEPT !.velocity = v0], trails |-> adv0.trails]),
         Some([ball |-> [ball1 EXCEPT !.velocity = v1], trails |-> adv1.trails])>>

\* mutant: the approach is tested at the positions before the advance
collide_ball_ball_early_test(b, tr0, o, tr1, t) ==
    LET adv0 == advance_single_ball(b, tr0, t)
        adv1 == advance_single_ball(o, tr1, t)
        ball0 == [adv0.ball EXCEPT !.collision_generation = @ + 1]
        ball1 == [adv1.ball EXCEPT !.collision_generation = @ + 1]
        mass0 == ball0.radius * ball0.radius
        mass1 == ball1.radius * ball1.radius
        dx == VSub(ball0.position, ball1.position)
        dv == VSub(ball0.velocity, ball1.velocity)
        proj == Dot(dv, VSub(b.position, o.position))
        d2 == Dot(dx, dx)
        den == (mass0 + mass1) * d2
        imp0 == <<RoundDiv(2 * mass1 * proj * dx[1], den),
                  RoundDiv(2 * mass1 * proj * dx[2], den)>>
        imp1 == <<RoundDiv(2 * mass0 * proj * dx[1], den),
                  RoundDiv(2 * mass0 * proj * dx[2], den)>>
        v0 == IF proj < 0 THEN cap_speed(VSub(ball0.velocity, imp0)) ELSE ball0.velocity
        v1 == IF proj < 0 THEN cap_speed(VAdd(ball1.velocity, imp1)) ELSE ball1.velocity
    IN <<Some([ball |-> [ball0 EXCEPT !.velocity = v0], trails |-> adv0.trails]),
         Some([ball |-> [ball1 EXCEPT !.velocity = v1], trails |-> adv1.trails])>>

\* mutant: the speed of the second ball is not capped
collide_ball_ball_second_uncapped(b, tr0, o, tr1, t) ==
    LET adv0 == advance_single_ball(b, tr0, t)
        adv1 == advance_single_ball(o, tr1, t)
        ball0 == [adv0.ball EXCEPT !.collision_generation = @ + 1]
        ball1 == [adv1.ball EXCEPT !.collision_generation = @ + 1]
        mass0 == ball0.radius * ball0.radius
        mass1 == ball1.radius * ball1.radius
        dx == VSub(ball0.position, ball1.position)
        dv == VSub(ball0.velocity, ball1.velocity)
        proj == Dot(dv, dx)
        d2 == Dot(dx, dx)
        den == (mass0 + mass1) * d2
        imp0 == <<RoundDiv(2 * mass1 * proj * dx[1], den),
                  RoundDiv(2 * mass1 * proj * dx[2], den)>>
        imp1 == <<RoundDiv(2 * mass0 * proj * dx[1], den),
                  RoundDiv(2 * mass0 * proj * dx[2], den)>>
        v0 == IF proj < 0 THEN cap_speed(VSub(ball0.velocity, imp0)) ELSE ball0.velocity
        v1 == IF proj < 0 THEN VAdd(ball1.velocity, imp1) ELSE ball1.velocity
    IN <<Some([ball |-> [ball0 EXCEPT !.velocity = v0], trails |-> adv0.trails]),
         Some([ball |-> [ball1 EXCEPT !.velocity = v1], trails |-> adv1.trails])>>

\* mutant: both balls take the impulse of equal masses
collide_ball_ball_unweighted(b, tr0, o, tr1, t) ==
    LET adv0 == advance_single_ball(b, tr0, t)
        adv1 == advance_single_ball(o, tr1, t)
        ball0 == [adv0.ball EXCEPT !.collision_generation = @ + 1]
        ball1 == [adv1.ball EXCEPT !.collision_generation = @ + 1]
        mass0 == ball0.radius * ball0.radius
        mass1 == ball1.radius * ball1.radius
        dx == VSub(ball0.position, ball1.position)
        dv == VSub(ball0.velocity, ball1.velocity)
        proj == Dot(dv, dx)
        d2 == Dot(dx, dx)
        den == (mass0 + mass1) * d2
        imp0 == <<RoundDiv(proj * dx[1], d2), RoundDiv(proj * dx[2], d2)>>
        imp1 == imp0
        v0 == IF proj < 0 THEN cap_speed(VSub(ball0.velocity, imp0)) ELSE ball0.velocity
        v1 == IF proj < 0 THEN cap_speed(VAdd(ball1.velocity, imp1)) ELSE ball1.velocity
    IN <<Some([ball |-> [ball0 EXCEPT !.velocity = v0], trails |-> adv0.trails]),
         Some([ball |-> [ball1 EXCEPT !.velocity = v1], trails |-> adv1.trails])>>

\* mutant: the impulse is applied with the opposite sign, towards the other
\* ball
collide_ball_ball_attracting(b, tr0, o, tr1, t) ==
    LET adv0 == advance_single_ball(b, tr0, t)
        adv1 == advance_single_ball(o, tr1, t)
        ball0 == [adv0.ball EXCEPT !.collision_generation = @ + 1]
        ball1 == [adv1.ball EXCEPT !.collision_generation = @ + 1]
        mass0 == ball0.radius * ball0.radius
        mass1 == ball1.radius * ball1.radius
        dx == VSub(ball0.position, ball1.position)
        dv == VSub(ball0.velocity, ball1.velocity)
        proj == Dot(dv, dx)
        d2 == Dot(dx, dx)
        den == (mass0 + mass1) * d2
        imp0 == <<RoundDiv(2 * mass1 * proj * dx[1], den),
                  RoundDiv(2 * mass1 * proj * dx[2], den)>>
        imp1 == <<RoundDiv(2 * mass0 * proj * dx[1], den),
                  RoundDiv(2 * mass0 * proj * dx[2], den)>>
        v0 == IF proj < 0 THEN cap_speed(VAdd(ball0.velocity, imp0)) ELSE ball0.velocity
        v1 == IF proj < 0 THEN cap_speed(VSub(ball1.velocity, imp1)) ELSE ball1.velocity
    IN <<Some([ball |-> [ball0 EXCEPT !.velocity = v0], trails |-> adv0.trails]),
         Some([ball |-> [ball1 EXCEPT !.velocity = v1], trails |-> adv1.trails])>>

\* collide_ball_ball: both balls updated; the impulse mass * a is rounded
\* to the velocity grid
collide_ball_ball(b, tr0, o, tr1, t) ==
    LET adv0 == advance_single_ball(b, tr0, t)
        adv1 == advance_single_ball(o, tr1, t)
        ball0 == [adv0.ball EXCEPT !.collision_generation = @ + 1]
        ball1 == [adv1.ball EXCEPT !.collision_generation = @ + 1]
        mass0 == ball0.radius * ball0.radius
        mass1 == ball1.radius * ball1.radius
        dx == VSub(ball0.position, ball1.position)
        dv == VSub(ball0.velocity, ball1.velocity)
        proj == Dot(dv, dx)
        d2 == Dot(dx, dx)
        den == (mass0 + mass1) * d2
        imp0 == <<RoundDiv(2 * mass1 * proj * dx[1], den),
                  RoundDiv(2 * mass1 * proj * dx[2], den)>>
        imp1 == <<RoundDiv(2 * mass0 * proj * dx[1], den),
                  RoundDiv(2 * mass0 * proj * dx[2], den)>>
        v0 == IF proj < 0 THEN cap_speed(VSub(ball0.velocity, imp0)) ELSE ball0.velocity
        v1 == IF proj < 0 THEN cap_speed(VAdd(ball1.velocity, imp1)) ELSE ball1.velocity
    IN <<Some([ball |-> [ball0 EXCEPT !.velocity = v0], trails |-> adv0.trails]),
         Some([ball |-> [ball1 EXCEPT !.velocity = v1], trails |-> adv1.trails])>>

\* mutant: the generation of the second ball is not checked
collide_first_checked(c0, tr0, g0, c1, tr1, g1, t) ==
    IF c0.type = "Ball"
    THEN IF c0.body.collision_generation # g0 THEN None
         ELSE IF c1.type = "Ball"
              THEN Some(collide_ball_ball(c0.body, tr0, c1.body, tr1, t))
              ELSE Some(collide_ball_wall(c0.body, tr0, c1.body, t))
    ELSE IF c1.type = "Ball"
         THEN LET res == collide_ball_wall(c1.body, tr1, c0.body, t)
              IN Some(<<res[2], res[1]>>)
         ELSE None

\* collide: None when a stored generation is stale, else the pair of updates
collide(c0, tr0, g0, c1, tr1, g1, t) ==
    IF c0.type = "Ball"
    THEN IF c0.body.collision_generation # g0 THEN None
         ELSE IF c1.type = "Ball"
              THEN IF c1.body.collision_generation # g1 THEN None
                   ELSE Some(collide_ball_ball(c0.body, tr0, c1.body, tr1, t))
              ELSE Some(collide_ball_wall(c0.body, tr0, c1.body, t))
    ELSE IF c1.type = "Ball"
         THEN IF c1.body.collision_generation # g1 THEN None
              ELSE LET res == collide_ball_wall(c1.body, tr1, c0.body, t)
                   IN Some(<<res[2], res[1]>>)
         ELSE None

\* ------------------------------------------------------------------ state
VARIABLES
    ball,               \* entity -> Ball (position, velocity, radius, initial_time, collision_generation)
    trails,             \* entity -> Trails.trails of the ball
    wall,               \* entity -> Wall (p0, p1)
    time,               \* SimulationData.time
    next_time,          \* SimulationData.next_time
    spatial_buckets,    \* CollisionDetectionData.spatial_buckets
    last_box,           \* CollisionDetectionData.last_box
    collisions_events,  \* CollisionDetectionData.collisions_events
    pc,                 \* the system of the schedule that runs next
    frame,              \* number of the current frame (stops the clock at NumFrames)
    processed,          \* the entries the handling loop popped in this pass, in order
    registered,         \* every <<cell, entity>> registration made in this frame
    probe               \* arguments and result of a function applied on its own

vars == <<ball, trails, wall, time, next_time, spatial_buckets, last_box,
          collisions_events, pc, frame, processed, registered, probe>>

Data == [spatial_buckets |-> spatial_buckets, last_box |-> last_box,
         collisions_events |-> collisions_events]

NoProbe == <<>>

\* ------------------------------------------------------------ world setup
\* init_walls: the four sides of the play area
init_walls ==
    LET W == width * Scale
        H == height * Scale
        points == <<Vec(0, 0), Vec(W, 0), Vec(W, H), Vec(0, H)>>
    IN [w \in WallIds |->
          [p0 |-> points[w - NumBalls],
           p1 |-> points[((w - NumBalls) % 4) + 1]]]

\* the placements <<position, velocity>> and the radii world setup may give
\* ball k, in units of length (init_balls draws them at random).  Balls 1
\* and 2 move along the row y = 10; ball 3 joins the row, meets it from
\* the row y = 12, or moves towards the bottom and right walls; a further
\* ball moves towards the top wall.
InitPlacements(k) ==
    CASE k = 1 -> {<<Vec(6, 10), Vec(5, 0)>>, <<Vec(6, 10), Vec(-5, 0)>>,
                   <<Vec(10, 10), Vec(5, 0)>>, <<Vec(10, 10), Vec(-5, 0)>>}
      [] k = 2 -> {<<Vec(16, 10), Vec(-5, 0)>>, <<Vec(16, 10), Vec(0, 0)>>,
                   <<Vec(16, 10), Vec(4, 0)>>, <<Vec(30, 10), Vec(-5, 0)>>,
                   <<Vec(30, 10), Vec(0, 0)>>}
      [] k = 3 -> {<<Vec(22, 10), Vec(-8, 0)>>, <<Vec(22, 12), Vec(-8, 0)>>,
                   <<Vec(50, 5), Vec(0, -5)>>, <<Vec(50, 5), Vec(3, -4)>>}
      [] OTHER -> {<<Vec(54 - 7 * (k - 4), 36), Vec(0, 3)>>}
InitRadii(k) ==
    CASE k = 2 -> {2, 3}
      [] OTHER -> {2}

InitBall(k) ==
    {[position |-> VMul(pv[1], Scale), velocity |-> pv[2], radius |-> r * Scale,
      initial_time |-> 0, collision_generation |-> 0] :
        pv \in InitPlacements(k), r \in InitRadii(k)}

\* init_balls keeps a ball inside the play area and rejects one that
\* overlaps an earlier ball
Inside(b) ==
    /\ b.radius <= b.position[1] /\ b.position[1] <= width * Scale - b.radius
    /\ b.radius <= b.position[2] /\ b.position[2] <= height * Scale - b.radius
Overlap(b, o) ==
    LET d == VSub(b.position, o.position)
    IN Dot(d, d) <= (b.radius + o.radius) * (b.radius + o.radius)

Init ==
    /\ ball \in {f \in [BallIds -> UNION {InitBall(k) : k \in BallIds}] :
                   /\ \A k \in BallIds : f[k] \in InitBall(k) /\ Inside(f[k])
                   /\ \A k, m \in BallIds : k # m => ~Overlap(f[k], f[m])}
    /\ trails = [k \in BallIds |-> <<>>]
    /\ wall = init_walls
    /\ time = 0
    /\ next_time = time_delta
    /\ spatial_buckets = {}
    /\ last_box = <<>>
    /\ collisions_events = {}
    /\ pc = "clear_trails"
    /\ frame = 1
    /\ processed = <<>>
    /\ registered = {}
    /\ probe = NoProbe

\* ---------------------------------------------------------------- systems
\* clear_trails.  The schedule of main.rs predates the trail log and does
\* not list the system; it runs here at the start of the frame, before
\* collision, so that a frame's trail log covers that frame.
ClearTrails ==
    /\ pc = "clear_trails"
    /\ trails' = [k \in BallIds |-> <<>>]
    /\ pc' = "collision"
    /\ UNCHANGED <<ball, wall, time, next_time, spatial_buckets, last_box,
                   collisions_events, frame, processed, registered, probe>>

\* the order in which collision registers the bodies: the balls, then the
\* walls, each at its current generation (0 for a wall)
detection_order(balls) ==
    [i \in 1..(NumBalls + 4) |->
       IF i <= NumBalls THEN GCE(i, "Ball", balls[i].collision_generation)
       ELSE GCE(i, "Wall", 0)]

RECURSIVE add_in_order(_, _, _, _, _, _, _)
add_in_order(cd, balls, walls, order, i, t, nt) ==
    IF i > Len(order) THEN cd
    ELSE add_in_order(
           add(cd, balls, walls, order[i],
               fetch_collidable_copy(balls, walls, order[i]), t, nt),
           balls, walls, order, i + 1, t, nt)

\* the clear() calls that open collision: the buckets and the queue are
\* emptied, last_box is left as it is
collision_cleared(cd) ==
    [cd EXCEPT !.spatial_buckets = {}, !.collisions_events = {}]

\* mutant: the buckets of the previous frame are not cleared
collision_result_uncleared(cd, balls, walls, t, nt) ==
    add_in_order([cd EXCEPT !.collisions_events = {}],
                 balls, walls, detection_order(balls), 1, t, nt)

\* collision: the buckets and the queue are cleared, then every body is added
collision_result(cd, balls, walls, t, nt) ==
    add_in_order(collision_cleared(cd),
                 balls, walls, detection_order(balls), 1, t, nt)

Collision ==
    /\ pc = "collision"
    /\ LET cd == collision_result(Data, ball, wall, time, next_time)
       IN /\ spatial_buckets' = cd.spatial_buckets
          /\ last_box' = cd.last_box
          /\ collisions_events' = cd.collisions_events
          /\ registered' = cd.spatial_buckets
    /\ pc' = "collision_handle"
    /\ processed' = <<>>
    /\ UNCHANGED <<ball, trails, wall, time, next_time, frame, probe>>

\* PriorityQueue::pop returns an entry of greatest priority
poppable(queue) == {e \in queue : \A o \in queue : e.priority >= o.priority}

\* mutant: the queue keeps one entry per time, and pop() takes the others
\* of the same priority with it
pop_rest_one_per_time(queue, ev) == {e \in queue : e.priority # ev.priority}

\* the queue pop() leaves behind
pop_rest(queue, ev) == queue \ {ev}

\* the trail log of an entity (a wall has none)
trails_of(tr, gce) == IF gce.collision_type = "Ball" THEN tr[gce.entity] ELSE <<>>

\* write_collidable: the update u, a ball with its trail log or a wall,
\* replaces the component of the entity
write_collidable(st, entity, u) ==
    IF "ball" \in DOMAIN u
    THEN [st EXCEPT !.ball[entity] = u.ball, !.trails[entity] = u.trails]
    ELSE [st EXCEPT !.wall[entity] = u.wall]

\* mutant: the updated entity is written and unregistered, but not added again
reregister_not_readded(st, gce, upd, t, nt) ==
    IF IsSome(upd)
    THEN [write_collidable(st, gce.entity, Unwrap(upd)) EXCEPT
            !.cd = remove(st.cd, gce)]
    ELSE st

\* one update of collision_handle: remove the old registration, write the
\* new state, add the entity again under its next generation
reregister(st, gce, upd, t, nt) ==
    IF IsSome(upd)
    THEN LET u == Unwrap(upd)
             written == write_collidable(st, gce.entity, u)
         IN [written EXCEPT
               !.cd = add(remove(st.cd, gce), written.ball, written.wall, next(gce),
                          IF "ball" \in DOMAIN u THEN CBall(u.ball) ELSE CWall(u.wall),
                          t, nt)]
    ELSE st

\* one iteration of the loop of collision_handle on the popped entry ev
handle_event(st, ev, nt) ==
    LET e0 == ev.item[1]
        e1 == ev.item[2]
        collision_time == -ev.priority
        result == collide(fetch_collidable_copy(st.ball, st.wall, e0),
                          trails_of(st.trails, e0), e0.generation,
                          fetch_collidable_copy(st.ball, st.wall, e1),
                          trails_of(st.trails, e1), e1.generation,
                          collision_time)
    IN IF IsSome(result)
       THEN reregister(reregister(st, e0, Unwrap(result)[1], collision_time, nt),
                       e1, Unwrap(result)[2], collision_time, nt)
       ELSE st

\* whether collide discards the entry (a stored generation is stale, or
\* both entities are walls)
is_discarded(balls, walls, ev) ==
    ~IsSome(collide(fetch_collidable_copy(balls, walls, ev.item[1]), <<>>,
                    ev.item[1].generation,
                    fetch_collidable_copy(balls, walls, ev.item[2]), <<>>,
                    ev.item[2].generation, -ev.priority))

CollisionHandle ==
    /\ pc = "collision_handle"
    /\ collisions_events # {}
    /\ \E ev \in poppable(collisions_events) :
         LET st == handle_event(
                     [ball |-> ball, trails |-> trails, wall |-> wall,
                      cd |-> [Data EXCEPT !.collisions_events = pop_rest(@, ev)]],
                     ev, next_time)
         IN /\ ball' = st.ball
            /\ trails' = st.trails
            /\ wall' = st.wall
            /\ spatial_buckets' = st.cd.spatial_buckets
            /\ last_box' = st.cd.last_box
            /\ collisions_events' = st.cd.collisions_events
            /\ registered' = registered \cup st.cd.spatial_buckets
            /\ processed' = Append(processed,
                                   [item |-> ev.item, priority |-> ev.priority,
                                    entry_time |-> ev.entry_time,
                                    collision_time |-> -ev.priority,
                                    discarded |-> is_discarded(ball, wall, ev)])
    /\ UNCHANGED <<time, next_time, pc, frame, probe>>

\* the loop of collision_handle ends when the queue is empty
CollisionHandleDone ==
    /\ pc = "collision_handle"
    /\ collisions_events = {}
    /\ pc' = "advance_balls"
    /\ UNCHANGED <<ball, trails, wall, time, next_time, spatial_buckets,
                   last_box, collisions_events, frame, processed, registered, probe>>

\* advance_balls: every ball is advanced to next_time
\* mutant: only the balls no collision has touched in this frame are advanced
AdvanceBalls_untouched_only ==
    /\ pc = "advance_balls"
    /\ ball' = [k \in BallIds |->
                  IF ball[k].initial_time = time
                  THEN advance_single_ball(ball[k], trails[k], next_time).ball
                  ELSE ball[k]]
    /\ trails' = [k \in BallIds |->
                    IF ball[k].initial_time = time
                    THEN advance_single_ball(ball[k], trails[k], next_time).trails
                    ELSE trails[k]]
    /\ pc' = "advance_time"
    /\ UNCHANGED <<wall, time, next_time, spatial_buckets, last_box,
                   collisions_events, frame, processed, registered, probe>>

AdvanceBalls ==
    /\ pc = "advance_balls"
    /\ ball' = [k \in BallIds |->
                  advance_single_ball(ball[k], trails[k], next_time).ball]
    /\ trails' = [k \in BallIds |->
                    advance_single_ball(ball[k], trails[k], next_time).trails]
    /\ pc' = "advance_time"
    /\ UNCHANGED <<wall, time, next_time, spatial_buckets, last_box,
                   collisions_events, frame, processed, registered, probe>>

\* advance_time: the clock moves on by one frame
AdvanceTime ==
    /\ pc = "advance_time"
    /\ frame < NumFrames
    /\ time' = next_time
    /\ next_time' = next_time + time_delta
    /\ frame' = frame + 1
    /\ pc' = "clear_trails"
    /\ UNCHANGED <<ball, trails, wall, spatial_buckets, last_box,
                   collisions_events, processed, registered, probe>>

Next ==
    \/ ClearTrails
    \/ Collision
    \/ CollisionHandle
    \/ CollisionHandleDone
    \/ AdvanceBalls
    \/ AdvanceTime

Spec == Init /\ [][Next]_vars

\* the condition of the loop of collision_handle: pop() returns an entry
loop_continues == pc = "collision_handle" /\ collisions_events # {}

\* The loop of collision_handle runs its iterations one after the other and
\* the system returns when pop() yields nothing.  The first conjunct is
\* WF_vars(CollisionHandle) with its enabling condition written out as the
\* loop condition.
FairSpec ==
    /\ Init /\ [][Next]_vars
    /\ ([]<>(~loop_continues) \/ []<><<CollisionHandle>>_vars)
    /\ WF_vars(CollisionHandleDone)

\* ------------------------------------------- functions applied on their own
\* the other variables while a single function is applied
Idle ==
    /\ ball = <<>> /\ trails = <<>> /\ wall = <<>>
    /\ time = 0 /\ next_time = 0
    /\ spatial_buckets = {} /\ last_box = <<>> /\ collisions_events = {}
    /\ frame = 0 /\ processed = <<>> /\ registered = {}

IdleUnchanged ==
    UNCHANGED <<ball, trails, wall, time, next_time, spatial_buckets, last_box,
                collisions_events, pc, frame, processed, registered>>

\* a ball of the given position and velocity (in units of length), radius
\* and initial_time
ProbeBall(p, v, r, t) ==
    [position |-> VMul(p, Scale), velocity |-> v, radius |-> r * Scale,
     initial_time |-> t, collision_generation |-> 0]

\* advance_single_ball called up to MaxCalls times on one ball, each time
\* with a target no earlier than the ball's initial_time
AdvanceBallsTried ==
    {ProbeBall(p, v, 1, t) :
        p \in {Vec(0, 0), Vec(3, -2)},
        v \in {Vec(5, 0), Vec(-3, 4), Vec(0, 0)},
        t \in {0, 1}}

InitAdvance ==
    /\ Idle
    /\ pc = "advance_single_ball"
    /\ \E b \in AdvanceBallsTried :
         probe = [orig |-> b, cur |-> b, trails |-> <<>>, calls |-> 0,
                  target |-> b.initial_time, prev_target |-> b.initial_time]

AdvanceSingleBall ==
    /\ pc = "advance_single_ball"
    /\ probe.calls < MaxCalls
    /\ \E t \in probe.cur.initial_time..MaxTarget :
         LET adv == advance_single_ball(probe.cur, probe.trails, t)
         IN probe' = [probe EXCEPT !.cur = adv.ball, !.trails = adv.trails,
                                   !.calls = @ + 1, !.target = t,
                                   !.prev_target = probe.target]
    /\ IdleUnchanged

NextAdvance == AdvanceSingleBall

SpecAdvance == InitAdvance /\ [][NextAdvance]_vars

\* solve_collision_ball_ball applied to a pair of balls
SolveFirstTried ==
    {ProbeBall(Vec(0, 0), v, 1, t) :
        v \in {Vec(5, 0), Vec(-5, 0), Vec(2, 1), Vec(0, 0)}, t \in {0, 2}}

SolveSecondTried ==
    {ProbeBall(p, v, r, t) :
        p \in {Vec(10, 0), Vec(4, 3), Vec(0, 6), Vec(-4, 3)},
        v \in {Vec(-5, 0), Vec(5, 0), Vec(0, -2), Vec(-1, -1), Vec(0, 0)},
        r \in {1, 2}, t \in {0, 3}}

InitSolve ==
    /\ Idle
    /\ pc = "solve_collision_ball_ball"
    /\ \E b \in SolveFirstTried, o \in SolveSecondTried :
         probe = [b0 |-> b, b1 |-> o, solved |-> FALSE, result |-> None]

SolveBallBall ==
    /\ pc = "solve_collision_ball_ball"
    /\ ~probe.solved
    /\ probe' = [probe EXCEPT !.solved = TRUE,
                              !.result = solve_collision_ball_ball(probe.b0, probe.b1)]
    /\ IdleUnchanged

NextSolve == SolveBallBall

SpecSolve == InitSolve /\ [][NextSolve]_vars

\* solve_collision applied to a pair of collidables of either type: balls
\* on either side of a wall line, walls wound either way
NarrowBallsTried ==
    {ProbeBall(p, v, 1, t) :
        p \in {Vec(3, 4), Vec(3, -4), Vec(-4, 3), Vec(5, 0)},
        v \in {Vec(0, -2), Vec(0, 2), Vec(2, 0), Vec(-2, 1)},
        t \in {0, 2}}

NarrowWallsTried ==
    {[p0 |-> VMul(q[1], Scale), p1 |-> VMul(q[2], Scale)] :
        q \in {<<Vec(0, 0), Vec(10, 0)>>, <<Vec(10, 0), Vec(0, 0)>>,
               <<Vec(0, 0), Vec(0, 10)>>}}

NarrowCollidablesTried ==
    {CBall(b) : b \in NarrowBallsTried} \cup {CWall(w) : w \in NarrowWallsTried}

InitNarrow ==
    /\ Idle
    /\ pc = "solve_collision"
    /\ \E c0 \in NarrowCollidablesTried, c1 \in NarrowCollidablesTried :
         /\ (c0.type = "Ball" /\ c1.type = "Ball") => ~Overlap(c0.body, c1.body)
         /\ probe = [c0 |-> c0, c1 |-> c1, solved |-> FALSE, result |-> None]

SolveCollision ==
    /\ pc = "solve_collision"
    /\ ~probe.solved
    /\ probe' = [probe EXCEPT !.solved = TRUE,
                              !.result = solve_collision(probe.c0, probe.c1)]
    /\ IdleUnchanged

NextNarrow == SolveCollision

SpecNarrow == InitNarrow /\ [][NextNarrow]_vars

\* ---- collide applied to one pair of bodies at the entry time the solver
\* gives, as collision_handle applies it to a popped entry
\* a ball that has collided once, given on the grid of the model
CollideBall(p, v, r, t) ==
    [position |-> p, velocity |-> v, radius |-> r,
     initial_time |-> t, collision_generation |-> 1]

CollideWallsTried ==
    {[p0 |-> Vec(0, 0), p1 |-> Vec(100, 0)],
     [p0 |-> Vec(100, 0), p1 |-> Vec(0, 0)]}

\* balls that fall towards the line y = 0 from either side, move along it
\* or away from it
CollideWallBallsTried ==
    {CollideBall(p, v, 10, t) :
       p \in {Vec(30, 40), Vec(30, -40)},
       v \in {Vec(3, -4), Vec(0, -2), Vec(3, 4), Vec(-4, 3), Vec(5, 0)},
       t \in {0, 1}}

\* the pairs collide is tried on: head-on pairs of equal and unequal
\* radius, one of them with a ball resolved later than the other, a fast
\* heavy ball hitting a light one, a grazing pair, an oblique pair, a pair
\* moving apart, balls and walls, two walls
CollidePairsTried ==
    {<<CBall(CollideBall(Vec(0, 0), Vec(5, 0), 10, 0)),
       CBall(CollideBall(Vec(100, 0), Vec(-5, 0), 10, 0))>>,
     <<CBall(CollideBall(Vec(0, 0), Vec(5, 0), 10, 0)),
       CBall(CollideBall(Vec(90, 0), Vec(-5, 0), 20, 2))>>,
     <<CBall(CollideBall(Vec(0, 0), Vec(5, 0), 10, 0)),
       CBall(CollideBall(Vec(100, 0), Vec(0, 0), 20, 0))>>,
     <<CBall(CollideBall(Vec(0, 0), Vec(600, 0), 3, 0)),
       CBall(CollideBall(Vec(5, 0), Vec(0, 0), 1, 0))>>,
     <<CBall(CollideBall(Vec(0, 0), Vec(5, 0), 10, 0)),
       CBall(CollideBall(Vec(100, 20), Vec(0, 0), 10, 0))>>,
     <<CBall(CollideBall(Vec(0, 0), Vec(25, 0), 10, 0)),
       CBall(CollideBall(Vec(66, 12), Vec(0, 0), 10, 0))>>,
     <<CBall(CollideBall(Vec(0, 0), Vec(-5, 0), 10, 0)),
       CBall(CollideBall(Vec(100, 0), Vec(5, 0), 10, 0))>>}
      \cup {<<CBall(b), CWall(w)>> : b \in CollideWallBallsTried, w \in CollideWallsTried}
      \cup {<<CWall(w), CWall(x)>> : w, x \in CollideWallsTried}

\* the latest initial_time of the bodies of a pair (a wall has none)
latest_initial_time(c0, c1) ==
    Max2(IF c0.type = "Ball" THEN c0.body.initial_time ELSE 0,
         IF c1.type = "Ball" THEN c1.body.initial_time ELSE 0)

\* a pair in either order; the stored generations are the current one (1)
\* or the one before (0)
InitCollide ==
    /\ Idle
    /\ pc = "collide"
    /\ \E pair \in CollidePairsTried, first \in {1, 2}, g0 \in {0, 1}, g1 \in {0, 1} :
         probe = [c0 |-> pair[first], c1 |-> pair[3 - first],
                  g0 |-> g0, g1 |-> g1, t |-> 0, done |-> FALSE, result |-> None]

\* the pair has an entry when the solver gives it an interval; the entry
\* is resolved at the interval's entry time, no earlier than the bodies are
Collide ==
    /\ pc = "collide"
    /\ ~probe.done
    /\ LET sol == solve_collision(probe.c0, probe.c1)
       IN /\ IsSome(sol)
          /\ latest_initial_time(probe.c0, probe.c1) <= Unwrap(sol)[2]
          /\ LET t == Max2(Unwrap(sol)[1], latest_initial_time(probe.c0, probe.c1))
             IN probe' = [probe EXCEPT
                            !.t = t, !.done = TRUE,
                            !.result = collide(probe.c0, <<>>, probe.g0,
                                               probe.c1, <<>>, probe.g1, t)]
    /\ IdleUnchanged

NextCollide == Collide

SpecCollide == InitCollide /\ [][NextCollide]_vars

\* ---- solve_collision_ball_ball applied to a pair of balls, and again after
\* one of the two has been advanced on its trajectory, as collision_handle
\* leaves a resolved ball pinned at the time of its event while the others
\* are still pinned at an earlier time
\* a ball chasing a slower one joins the balls of SolveFirstTried
PinFirstTried ==
    SolveFirstTried \cup {ProbeBall(Vec(0, 0), Vec(10, 0), 1, 0)}

PinSecondTried ==
    SolveSecondTried \cup {ProbeBall(Vec(3, 0), Vec(9, 0), 1, 0)}

InitPin ==
    /\ Idle
    /\ pc = "pin"
    /\ \E b \in PinFirstTried, o \in PinSecondTried :
         probe = [b0 |-> b, b1 |-> o, solved |-> FALSE, first |-> None,
                  pinned |-> FALSE, result |-> None]

\* the pair as it is given
PinSolve ==
    /\ pc = "pin"
    /\ ~probe.solved
    /\ probe' = [probe EXCEPT !.solved = TRUE,
                              !.first = solve_collision_ball_ball(probe.b0, probe.b1)]
    /\ IdleUnchanged

\* one ball advanced to a time s from its initial_time up to the entry
\* time of the pair, and the pair solved again
PinAdvance ==
    /\ pc = "pin"
    /\ probe.solved /\ ~probe.pinned
    /\ IsSome(probe.first)
    /\ \/ \E s \in probe.b0.initial_time..Unwrap(probe.first)[1] :
            LET adv == advance_single_ball(probe.b0, <<>>, s).ball
            IN probe' = [probe EXCEPT
                           !.b0 = adv, !.pinned = TRUE,
                           !.result = solve_collision_ball_ball(adv, probe.b1)]
       \/ \E s \in probe.b1.initial_time..Unwrap(probe.first)[1] :
            LET adv == advance_single_ball(probe.b1, <<>>, s).ball
            IN probe' = [probe EXCEPT
                           !.b1 = adv, !.pinned = TRUE,
                           !.result = solve_collision_ball_ball(probe.b0, adv)]
    /\ IdleUnchanged

NextPin ==
    \/ PinSolve
    \/ PinAdvance

SpecPin == InitPin /\ [][NextPin]_vars

\* ---- the schedule run on worlds in which two contacts fall on the same
\* instant: balls 1 and 2 meet on the row y = 10 while ball 3 reaches the
\* bottom wall, or ball 2 reaches the right wall while ball 3 reaches the
\* bottom wall, each 0.6 units of time into the first frame; or ball 1
\* reaches the left wall while ball 3 hits ball 2 next to it, 0.3 units
\* into the frame, and balls 1 and 2 then meet
TiePlacements(k) ==
    CASE k = 1 -> {<<Vec(6, 10), Vec(5, 0)>>, <<Vec(10, 10), Vec(-5, 0)>>,
                   <<Vec(5, 10), Vec(-10, 0)>>}
      [] k = 2 -> {<<Vec(16, 10), Vec(-5, 0)>>, <<Vec(55, 20), Vec(5, 0)>>,
                   <<Vec(30, 20), Vec(0, 0)>>, <<Vec(10, 10), Vec(0, 0)>>}
      [] k = 3 -> {<<Vec(50, 5), Vec(0, -5)>>, <<Vec(50, 5), Vec(3, -4)>>,
                   <<Vec(17, 10), Vec(-10, 0)>>}
      [] OTHER -> {<<Vec(54 - 7 * (k - 4), 36), Vec(0, 5)>>}

TieBall(k) ==
    {[position |-> VMul(pv[1], Scale), velocity |-> pv[2], radius |-> 2 * Scale,
      initial_time |-> 0, collision_generation |-> 0] : pv \in TiePlacements(k)}

InitTie ==
    /\ ball \in {f \in [BallIds -> UNION {TieBall(k) : k \in BallIds}] :
                   /\ \A k \in BallIds : f[k] \in TieBall(k) /\ Inside(f[k])
                   /\ \A k, m \in BallIds : k # m => ~Overlap(f[k], f[m])}
    /\ trails = [k \in BallIds |-> <<>>]
    /\ wall = init_walls
    /\ time = 0
    /\ next_time = time_delta
    /\ spatial_buckets = {}
    /\ last_box = <<>>
    /\ collisions_events = {}
    /\ pc = "clear_trails"
    /\ frame = 1
    /\ processed = <<>>
    /\ registered = {}
    /\ probe = NoProbe

SpecTie == InitTie /\ [][Next]_vars

\* the state the loop of collision_handle works on
HandlerNow == [ball |-> ball, trails |-> trails, wall |-> wall, cd |-> Data]

\* one iteration of the loop that pops the entry ev
handled(st, ev, nt) ==
    handle_event([st EXCEPT !.cd.collisions_events = pop_rest(@, ev)], ev, nt)

RECURSIVE pass_ends(_, _)
\* the states in which the loop of collision_handle can end when it starts
\* from st, one for every order in which pop() may return entries of equal
\* priority
pass_ends(st, nt) ==
    IF st.cd.collisions_events = {} THEN {st}
    ELSE UNION {pass_ends(handled(st, ev, nt), nt) :
                  ev \in poppable(st.cd.collisions_events)}

\* ================================================================= claims
Last(seq) == seq[Len(seq)]
HandledOne == pc = "collision_handle" /\ Len(processed') = Len(processed) + 1
EntityPair(item) == {item[1].entity, item[2].entity}
Current(g) ==
    g.collision_type = "Wall" \/ ball[g.entity].collision_generation = g.generation
StaleEntry(ev) == ~Current(ev.item[1]) \/ ~Current(ev.item[2])
EverPushed ==
    {e.item : e \in collisions_events} \cup {processed[i].item : i \in 1..Len(processed)}
CellsEverOf(e) == {q[1] : q \in {r \in registered : r[2].entity = e}}
AfterDetection == pc = "collision_handle" /\ processed = <<>>

\* C1: within one handling pass every pop returns an entry whose scheduled
\* time is the smallest among all queued entries, and the times of the
\* entries processed so far, re-seeded ones included, never decrease.
C1_ChronologicalOrder ==
    [][HandledOne =>
         /\ \A e \in collisions_events :
              Last(processed').entry_time <= e.entry_time
         /\ \A i \in 1..(Len(processed') - 1) :
              processed'[i].entry_time <= processed'[i + 1].entry_time
         /\ Last(processed').collision_time = Last(processed').entry_time]_vars

\* C1 witness: in the first frame a pass has processed an entry that an
\* earlier resolution of the same pass re-seeded, at a later time than the
\* first entry of the pass.
C1_Witness ==
    /\ frame = 1 /\ pc = "collision_handle" /\ Len(processed) >= 2
    /\ Last(processed).item[1].generation > 0
    /\ ~Last(processed).discarded
    /\ processed[1].entry_time < Last(processed).entry_time

\* C2: popping an entry in which a stored generation differs from the
\* ball's current generation changes no ball, no trail, no wall and no
\* registration, and takes nothing but that entry from the queue.
C2_StaleEventDiscarded ==
    [][(HandledOne /\ \E ev \in collisions_events :
                        ev.item = Last(processed').item /\ StaleEntry(ev)) =>
         /\ ball' = ball /\ trails' = trails /\ wall' = wall
         /\ spatial_buckets' = spatial_buckets
         /\ last_box' = last_box
         /\ \E ev \in collisions_events :
              /\ ev.item = Last(processed').item
              /\ collisions_events' = collisions_events \ {ev}]_vars

\* C2 witness: the pass just discarded an entry whose first ball was
\* current and whose second ball had moved on to a later generation.
C2_Witness ==
    /\ pc = "collision_handle" /\ Len(processed) >= 2
    /\ Last(processed).discarded
    /\ Last(processed).item[2].collision_type = "Ball"
    /\ Current(Last(processed).item[1])
    /\ ~Current(Last(processed).item[2])

\* C3: after detection and after every handled event, every registration
\* in a bucket and every key of the cell-range map carries its entity's
\* current generation.
C3_RegistrationsCurrent ==
    pc \in {"collision_handle", "advance_balls", "advance_time"} =>
      /\ \A q \in spatial_buckets : Current(q[2])
      /\ \A g \in DOMAIN last_box : Current(g)

\* C3 witness: a ball updated by a resolution is registered under its
\* incremented generation.
C3_Witness ==
    /\ pc = "collision_handle" /\ frame = 1
    /\ \E q \in spatial_buckets : q[2].generation > 0 /\ Current(q[2])

\* C4: every pair of bodies an event was pushed for in this frame has been
\* registered in a common cell during the frame.
C4_PairsShareACell ==
    \A item \in EverPushed :
      CellsEverOf(item[1].entity) \cap CellsEverOf(item[2].entity) # {}

\* C4 witness: events were pushed in a frame in which two balls never
\* shared a cell.
C4_Witness ==
    /\ pc = "collision_handle" /\ EverPushed # {}
    /\ \E a, b \in BallIds :
         /\ a # b
         /\ CellsEverOf(a) # {} /\ CellsEverOf(b) # {}
         /\ CellsEverOf(a) \cap CellsEverOf(b) = {}

\* whether the solver gives the two registered entities an interval that
\* meets the frame window
HitInWindow(a, b) ==
    LET sol == solve_collision(fetch_collidable_copy(ball, wall, a),
                               fetch_collidable_copy(ball, wall, b))
    IN IsSome(sol) /\ segments_intersect(Unwrap(sol), <<time, next_time>>)
SharingCell(a, b) ==
    \E q, r \in spatial_buckets : q[1] = r[1] /\ q[2] = a /\ r[2] = b

\* C5: right after detection the queue holds exactly one entry for every
\* unordered pair of bodies that share a cell and have a solved interval
\* in the window, and none for any other pair.
C5_PairDiscoveredOnce ==
    AfterDetection =>
      \A a, b \in {q[2] : q \in spatial_buckets} :
        a # b =>
          Cardinality({e \in collisions_events :
                         EntityPair(e.item) = {a.entity, b.entity}})
            = IF SharingCell(a, b) /\ HitInWindow(a, b) THEN 1 ELSE 0

\* C5 witness: detection of the second frame queued an entry for two balls.
C5_Witness ==
    /\ AfterDetection /\ frame = 2
    /\ \E e \in collisions_events :
         e.item[1].collision_type = "Ball" /\ e.item[2].collision_type = "Ball"

\* C6: every handling pass terminates: it pops a bounded number of entries
\* and, once started, drains the queue and returns.
C6_HandlingTerminates ==
    /\ [](Len(processed) <= MaxPassEvents)
    /\ (pc = "collision_handle") ~> (pc = "advance_balls")

\* C6 witness: a pass that processed a chain of entries, one of them
\* re-seeded by an earlier resolution of the pass, has drained the queue.
C6_Witness ==
    /\ pc = "advance_balls" /\ frame = 1
    /\ collisions_events = {}
    /\ Len(processed) >= 3
    /\ \E i \in 1..Len(processed) :
         processed[i].item[1].generation > 0 /\ ~processed[i].discarded

\* C7: advance is time-linear: a ball advanced successively to times
\* initial_time <= t1 <= ... <= tn has the position, velocity and
\* initial_time of the ball advanced directly to tn.
C7_AdvanceTimeLinear ==
    (pc = "advance_single_ball" /\ probe.calls >= 1) =>
        LET direct == advance_single_ball(probe.orig, <<>>, probe.target).ball
        IN /\ probe.cur.position = direct.position
           /\ probe.cur.velocity = direct.velocity
           /\ probe.cur.initial_time = direct.initial_time

\* C7 witness: a moving ball advanced in at least two steps to strictly
\* later times.
C7_Witness ==
    /\ pc = "advance_single_ball"
    /\ probe.calls >= 2
    /\ probe.orig.velocity # Vec(0, 0)
    /\ probe.orig.initial_time < probe.prev_target
    /\ probe.prev_target < probe.target

\* C8: advance is idempotent for a fixed target time: a second call with the
\* same t leaves position, velocity and initial_time as they are and
\* appends no trail segment.
C8_AdvanceIdempotent ==
    [][(/\ pc = "advance_single_ball"
        /\ probe.calls >= 1
        /\ probe'.calls = probe.calls + 1
        /\ probe'.target = probe.target)
       => (/\ probe'.cur.position = probe.cur.position
           /\ probe'.cur.velocity = probe.cur.velocity
           /\ probe'.cur.initial_time = probe.cur.initial_time
           /\ probe'.trails = probe.trails)]_vars

\* C8 witness: a moving ball was advanced to a later time, which left a
\* trail segment, and then advanced to the same time again.
C8_Witness ==
    /\ pc = "advance_single_ball"
    /\ probe.calls = 2
    /\ probe.orig.velocity # Vec(0, 0)
    /\ probe.target = probe.prev_target
    /\ probe.target > probe.orig.initial_time
    /\ Len(probe.trails) = 1

\* the position of a ball at time t, extrapolated from its own initial_time
PositionAt(b, t) == advance_single_ball(b, <<>>, t).ball.position

\* gap of the two balls at time t: squared distance of the centres less the
\* square of r0 + r1
Gap(b, o, t) ==
    LET d == VSub(PositionAt(b, t), PositionAt(o, t))
        r == b.radius + o.radius
    IN Dot(d, d) - r * r

\* the balls approach: dot(relV, relP) < 0
Approaching(b, o) ==
    Dot(VSub(b.velocity, o.velocity), VSub(b.position, o.position)) < 0

\* |relV|^2 times the least gap the two balls ever have
LeastGapScaled(b, o) ==
    LET dv == VSub(b.velocity, o.velocity)
        d0 == VSub(PositionAt(b, 0), PositionAt(o, 0))
        r == b.radius + o.radius
    IN Dot(dv, dv) * (Dot(d0, d0) - r * r) - Dot(dv, d0) * Dot(dv, d0)

\* the pair of the worked example: unit balls at (0,0) and (10,0) pinned
\* at t = 0
ExamplePair(v0, v1) ==
    /\ probe.b0 = ProbeBall(Vec(0, 0), v0, 1, 0)
    /\ probe.b1 = ProbeBall(Vec(10, 0), v1, 1, 0)

\* C9: for two approaching balls the entry time is the smaller root of
\* |dp(t)|^2 = (r0+r1)^2, each ball extrapolated from its own initial_time
\* (on the time grid: the last grid time not after the first instant of
\* contact), and it exists whenever the balls ever touch; for the unit balls
\* at (0,0) and (10,0) with velocities (5,0) and (-5,0) it is 0.8.
C9_EntryIsSmallerRoot ==
    (pc = "solve_collision_ball_ball" /\ probe.solved) =>
        LET b == probe.b0
            o == probe.b1
            te == Unwrap(probe.result)[1]
        IN /\ IsSome(probe.result) =>
                /\ Approaching(b, o)
                /\ Gap(b, o, te) >= 0
                /\ Gap(b, o, te + 1) <= Gap(b, o, te - 1)
                /\ \/ Gap(b, o, te + 1) < 0
                   \/ Gap(b, o, te + 2) > Gap(b, o, te)
           /\ (Approaching(b, o) /\ LeastGapScaled(b, o) <= 0) => IsSome(probe.result)
           /\ ExamplePair(Vec(5, 0), Vec(-5, 0)) =>
                /\ IsSome(probe.result)
                /\ te = FloorDiv(8 * Scale, 10)

\* C9 witness: the solver found the entry time of two balls pinned at
\* different times that approach each other obliquely, first touching
\* strictly between two grid times.
C9_Witness ==
    /\ pc = "solve_collision_ball_ball" /\ probe.solved
    /\ IsSome(probe.result)
    /\ probe.b0.initial_time # probe.b1.initial_time
    /\ probe.b0.initial_time # 0 /\ probe.b1.initial_time # 0
    /\ probe.b0.velocity[2] # probe.b1.velocity[2]
    /\ Gap(probe.b0, probe.b1, Unwrap(probe.result)[1]) > 0

\* C10: the solver reports no collision for separating balls: the result is
\* None whenever dot(relV, relP) >= 0, as for the unit balls at (0,0) and
\* (10,0) with velocities (-5,0) and (5,0), and whenever the discriminant of
\* the contact quadratic is negative (the balls never touch).
C10_NoneWhenSeparating ==
    (pc = "solve_collision_ball_ball" /\ probe.solved) =>
        /\ ~Approaching(probe.b0, probe.b1) => probe.result = None
        /\ LeastGapScaled(probe.b0, probe.b1) > 0 => probe.result = None
        /\ ExamplePair(Vec(-5, 0), Vec(5, 0)) => probe.result = None

\* C10 witness: the solver returned None for two balls that approach each
\* other and pass without touching.
C10_Witness ==
    /\ pc = "solve_collision_ball_ball" /\ probe.solved
    /\ probe.result = None
    /\ Approaching(probe.b0, probe.b1)
    /\ LeastGapScaled(probe.b0, probe.b1) > 0

\* the ball and the wall of a solved ball-wall pair, in either argument order
NarrowBall == IF probe.c0.type = "Ball" THEN probe.c0.body ELSE probe.c1.body
NarrowWall == IF probe.c0.type = "Wall" THEN probe.c0.body ELSE probe.c1.body
BallWallSolved ==
    /\ pc = "solve_collision" /\ probe.solved
    /\ probe.c0.type # probe.c1.type

\* distance of the ball's centre to the wall line at time t, counted
\* positive on the side the ball starts on
SideDistance(b, w, t) ==
    Sgn(Dot(normal(w), VSub(b.position, w.p0)))
      * Dot(normal(w), VSub(PositionAt(b, t), w.p0))

\* the ball moves towards the wall line
TowardsWall(b, w) ==
    Dot(normal(w), VSub(b.position, w.p0)) * Dot(normal(w), b.velocity) < 0

\* C11: for a ball approaching a wall line the entry time is the time at
\* which the ball's distance to the line equals its radius and the touch
\* time the time at which the centre reaches the line (on the time grid:
\* the last grid time not after that instant), on either side of the
\* line; radius 1 at distance 4 and speed 2 pinned at t = 0 gives 1.5.
C11_WallEntryAtRadius ==
    (BallWallSolved /\ TowardsWall(NarrowBall, NarrowWall)) =>
        /\ IsSome(probe.result)
        /\ LET b == NarrowBall
               w == NarrowWall
               te == Unwrap(probe.result)[1]
               tt == Unwrap(probe.result)[2]
           IN /\ SideDistance(b, w, te) >= b.radius
              /\ SideDistance(b, w, te + 1) < b.radius
              /\ SideDistance(b, w, tt) >= 0
              /\ SideDistance(b, w, tt + 1) < 0
              /\ (/\ b.radius = Scale /\ b.initial_time = 0
                  /\ SideDistance(b, w, 0) = 4 * Scale
                  /\ SideDistance(b, w, 0) - SideDistance(b, w, 1) = 2)
                 => te = FloorDiv(15 * Scale, 10)

\* C12: whenever the solver returns an interval, for ball-ball and for
\* ball-wall in either argument order, t_entry <= t_mid.
C12_IntervalOrdered ==
    (pc = "solve_collision" /\ probe.solved /\ IsSome(probe.result)) =>
        Unwrap(probe.result)[1] <= Unwrap(probe.result)[2]

\* the popped entry pairs two balls of equal radius whose velocities are
\* equal and opposite and lie along the line of their centres
HeadOn(item) ==
    /\ item[1].collision_type = "Ball" /\ item[2].collision_type = "Ball"
    /\ LET b == ball[item[1].entity]
           o == ball[item[2].entity]
           dx == VSub(PositionAt(b, 0), PositionAt(o, 0))
       IN /\ b.radius = o.radius
          /\ b.velocity = VMul(o.velocity, -1)
          /\ b.velocity # Vec(0, 0)
          /\ b.velocity[1] * dx[2] - b.velocity[2] * dx[1] = 0

\* C13: when the contact of two equal-radius balls colliding head-on with
\* equal and opposite velocities is resolved, each ball leaves with the
\* other's velocity.
C13_HeadOnExchange ==
    [][(HandledOne /\ ~Last(processed').discarded /\ HeadOn(Last(processed').item)) =>
         LET item == Last(processed').item
         IN /\ ball'[item[1].entity].velocity = ball[item[2].entity].velocity
            /\ ball'[item[2].entity].velocity = ball[item[1].entity].velocity]_vars

\* C13 witness: balls 1 and 2, of equal radius, met head-on at speeds 5 and
\* -5 and their contact has been resolved.
C13_Witness ==
    /\ pc = "collision_handle" /\ frame = 1 /\ Len(processed) = 1
    /\ ~processed[1].discarded
    /\ EntityPair(processed[1].item) = {1, 2}
    /\ ball[1].radius = ball[2].radius
    /\ ball[1].velocity = Vec(-5, 0) /\ ball[2].velocity = Vec(5, 0)
    /\ ball[1].collision_generation = 1 /\ ball[2].collision_generation = 1

\* the participants of the entry a step of the handling loop resolved (none
\* if the step discarded the entry or the step is another system's)
ResolvedBalls ==
    IF HandledOne /\ ~Last(processed').discarded
    THEN {g.entity : g \in {h \in {Last(processed').item[1], Last(processed').item[2]} :
                              h.collision_type = "Ball"}}
    ELSE {}

WallGenerations ==
    {g.generation :
       g \in {h \in ({q[2] : q \in spatial_buckets} \cup DOMAIN last_box
                     \cup UNION {{e.item[1], e.item[2]} : e \in collisions_events}
                     \cup UNION {{processed[i].item[1], processed[i].item[2]} :
                                   i \in 1..Len(processed)}) :
                h.collision_type = "Wall"}}

\* C15: walls are never mutated: every wall keeps its original endpoints
\* and generation 0, and a step that resolves a ball-wall event changes
\* that ball only, whose generation is the only one to increment.
C15_WallsNeverMutated ==
    /\ [](wall = init_walls /\ WallGenerations \subseteq {0})
    /\ [][(/\ HandledOne /\ ~Last(processed').discarded
           /\ \E g \in {Last(processed').item[1], Last(processed').item[2]} :
                g.collision_type = "Wall")
          => /\ wall' = wall
             /\ \A k \in BallIds :
                  IF k \in ResolvedBalls
                  THEN ball'[k].collision_generation = ball[k].collision_generation + 1
                  ELSE ball'[k] = ball[k]]_vars

\* C15 witness: a ball bounced off a wall in the second frame and the wall
\* is registered under generation 0.
C15_Witness ==
    /\ pc = "collision_handle" /\ frame = 2 /\ Len(processed) >= 1
    /\ ~Last(processed).discarded
    /\ \E g \in {Last(processed).item[1], Last(processed).item[2]} :
         /\ g.collision_type = "Wall"
         /\ \E q \in spatial_buckets : q[2] = g
    /\ \E k \in EntityPair(Last(processed).item) \cap BallIds :
         ball[k].collision_generation >= 1

\* the state the handler works on, with the queue as it is
HandlerState ==
    [ball |-> ball, trails |-> trails, wall |-> wall, cd |-> Data]
\* an entry pairing two walls, as a push at the start of the window would
\* have made it
WallWallEntry(w1, w2) ==
    [item |-> <<GCE(w1, "Wall", 0), GCE(w2, "Wall", 0)>>,
     priority |-> event_priority(time, time, next_time), entry_time |-> time]

\* C16: two walls never collide: the solver returns None for every pair
\* of walls, no entry that was ever queued pairs two walls, and handling
\* an entry of two walls would be discarded and change nothing.
C16_WallsNeverCollide ==
    /\ \A item \in EverPushed :
         ~(item[1].collision_type = "Wall" /\ item[2].collision_type = "Wall")
    /\ \A w1, w2 \in WallIds :
         /\ solve_collision(CWall(wall[w1]), CWall(wall[w2])) = None
         /\ is_discarded(ball, wall, WallWallEntry(w1, w2))
         /\ handle_event(HandlerState, WallWallEntry(w1, w2), next_time) = HandlerState

\* C16 witness: two walls are registered in a common cell, so the solver
\* was asked about them, and entries of other pairs have been handled.
C16_Witness ==
    /\ pc = "collision_handle" /\ Len(processed) >= 1
    /\ \E w1, w2 \in WallIds :
         w1 # w2 /\ SharingCell(GCE(w1, "Wall", 0), GCE(w2, "Wall", 0))

\* the detection data a pass over the bodies builds from empty data
BuiltFromEmpty ==
    add_in_order(EmptyData, ball, wall, detection_order(ball), 1, time, next_time)

\* C17: when a detection pass starts, its clearing leaves the buckets, the
\* cell-range map and the queue empty before the first body is added, and
\* the pass ends with exactly what registering every body into empty data
\* gives: nothing of the previous frame is left.
C17_DetectionStartsEmpty ==
    /\ pc = "collision" => collision_cleared(Data) = EmptyData
    /\ AfterDetection => Data = BuiltFromEmpty

\* the balls an entry handled in this pass has updated
TouchedBalls ==
    {k \in BallIds : \E i \in 1..Len(processed) :
       ~processed[i].discarded /\ k \in EntityPair(processed[i].item)}

\* C18: the bulk advance takes every ball, touched by a collision or not,
\* along its velocity from its last resolved state to the end of the frame
\* and leaves its initial_time at next_time; when the next detection pass
\* begins every ball's initial_time is the frame's start time.
C18_AllBallsReachFrameEnd ==
    /\ [](/\ pc = "advance_time" =>
               \A k \in BallIds : ball[k].initial_time = next_time
          /\ pc \in {"clear_trails", "collision"} =>
               \A k \in BallIds : ball[k].initial_time = time)
    /\ [][pc = "advance_balls" =>
            \A k \in BallIds :
              /\ ball'[k].position =
                   VAdd(ball[k].position,
                        VMul(ball[k].velocity, next_time - ball[k].initial_time))
              /\ ball'[k].velocity = ball[k].velocity
              /\ ball'[k].collision_generation = ball[k].collision_generation]_vars

\* C18 witness: the second detection pass is about to begin after a frame
\* in which one ball was updated by a collision and another was not.
C18_Witness ==
    /\ pc = "collision" /\ frame = 2
    /\ \E j, k \in BallIds :
         /\ j \in TouchedBalls /\ k \notin TouchedBalls
         /\ ball[j].initial_time = time /\ ball[k].initial_time = time

\* the interval the solver gives for two registered bodies
SolvedFor(a, b) ==
    solve_collision(fetch_collidable_copy(ball, wall, a),
                    fetch_collidable_copy(ball, wall, b))
\* intersection with slack at both ends of the window; one tick, the least
\* time the grid resolves, stands for the slack
IntersectsWithSlack(x, y) == x[2] >= y[1] - 1 /\ y[2] + 1 >= x[1]

\* C19: after the bodies were registered with add over [time, next_time],
\* two bodies sharing a cell have an entry in the queue if and only if
\* the solver gives them an interval that intersects the window, with
\* slack at both ends, and every entry is keyed by the entry time of its
\* interval.
C19_EventIffIntervalInWindow ==
    AfterDetection =>
      /\ \A a, b \in {q[2] : q \in spatial_buckets} :
           (a # b /\ SharingCell(a, b)) =>
             ((\E e \in collisions_events : EntityPair(e.item) = {a.entity, b.entity})
                <=> (/\ IsSome(SolvedFor(a, b))
                     /\ IntersectsWithSlack(Unwrap(SolvedFor(a, b)), <<time, next_time>>)))
      /\ \A e \in collisions_events :
           /\ IsSome(SolvedFor(e.item[1], e.item[2]))
           /\ e.entry_time = Unwrap(SolvedFor(e.item[1], e.item[2]))[1]
           /\ e.priority = -e.entry_time

\* the registrations under which the step just taken has added the balls
\* it resolved
Reseeded ==
    IF HandledOne /\ ~Last(processed').discarded
    THEN {next(g) : g \in {h \in {Last(processed').item[1], Last(processed').item[2]} :
                             h.collision_type = "Ball"}}
    ELSE {}
\* the bodies registered after the step in a cell that n covers
CoLocated(n) ==
    {q[2] : q \in {r \in spatial_buckets' :
                     /\ r[2] # n
                     /\ \E o \in spatial_buckets' : o[2] = n /\ o[1] = r[1]}}
\* the solver's interval for n and c in the state after the step
SolvedAfter(n, c) ==
    solve_collision(fetch_collidable_copy(ball', wall', n),
                    fetch_collidable_copy(ball', wall', c))

\* C20: a ball updated by a resolution at time tc is registered again,
\* from tc on, over the cells it sweeps until next_time; each body in
\* one of these cells whose interval with the ball intersects
\* [tc, next_time] gets an entry in the queue, and no other; entries leave
\* the queue only by being processed, and the pass ends only once the
\* queue is empty.
C20_ChainedContactsSameFrame ==
    /\ [][\A n \in Reseeded :
            LET tc == Last(processed').collision_time
                b == ball'[n.entity]
                box == get_cell_range_for_movement(CBall(b), next_time)
            IN /\ b.initial_time = tc /\ b.collision_generation = n.generation
               /\ {q[1] : q \in {r \in spatial_buckets' : r[2] = n}} = CellsOf(box)
               /\ n \in DOMAIN last_box' /\ last_box'[n] = box
               /\ \A c \in CoLocated(n) :
                    LET sol == SolvedAfter(n, c)
                        queued == {e \in collisions_events' :
                                     e.item \in {<<n, c>>, <<c, n>>}}
                    IN IF IsSome(sol) /\ segments_intersect(Unwrap(sol), <<tc, next_time>>)
                       THEN /\ Cardinality(queued) = 1
                            /\ \A e \in queued :
                                 e.entry_time = clamp(Unwrap(sol)[1], tc, next_time)
                       ELSE queued = {}]_vars
    /\ [][pc = "collision_handle" =>
            /\ \A e \in collisions_events :
                 \/ \E f \in collisions_events' : f.item = e.item
                 \/ HandledOne /\ Last(processed').item = e.item
            /\ pc' # "collision_handle" => collisions_events = {}]_vars

\* C20 witness: in one pass a ball was resolved and an entry of its new
\* registration, queued by that resolution, was resolved later in the pass
\* at a time inside the frame.
C20_Witness ==
    /\ pc = "collision_handle"
    /\ \E i, j \in 1..Len(processed) :
         /\ i < j /\ ~processed[i].discarded /\ ~processed[j].discarded
         /\ \E g \in {processed[i].item[1], processed[i].item[2]} :
              /\ g.collision_type = "Ball"
              /\ next(g) \in {processed[j].item[1], processed[j].item[2]}
         /\ processed[i].collision_time < processed[j].collision_time
         /\ processed[j].collision_time <= next_time

\* the registrations of this state and, for each ball, the one it had
\* before and the one it will have next
RemoveTried ==
    DOMAIN last_box
      \cup {next(g) : g \in DOMAIN last_box}
      \cup {[g EXCEPT !.generation = @ - 1] :
              g \in {h \in DOMAIN last_box : h.generation > 0}}

\* C21: remove erases a registered (entity, generation) from every cell
\* and forgets its range, leaving every other registration, every other
\* range and the queue as they are; for an (entity, generation) that is not
\* registered it changes nothing. The handler's removal of an updated
\* ball leaves no trace of the old registration.
C21_RemoveErasesRegistration ==
    /\ [](\A g \in RemoveTried :
            LET r == remove(Data, g)
            IN IF g \in DOMAIN last_box
               THEN /\ r.spatial_buckets = {q \in spatial_buckets : q[2] # g}
                    /\ DOMAIN r.last_box = (DOMAIN last_box) \ {g}
                    /\ \A h \in DOMAIN r.last_box : r.last_box[h] = last_box[h]
                    /\ r.collisions_events = collisions_events
               ELSE r = Data)
    /\ [][(HandledOne /\ ~Last(processed').discarded) =>
            \A g \in {h \in {Last(processed').item[1], Last(processed').item[2]} :
                        h.collision_type = "Ball"} :
              /\ g \in DOMAIN last_box
              /\ g \notin DOMAIN last_box'
              /\ \A q \in spatial_buckets' : q[2] # g]_vars

\* C21 witness: a registration made in this pass over several cells has
\* been removed, and an (entity, generation) that is not registered was
\* tried as well.
C21_Witness ==
    /\ pc = "collision_handle"
    /\ \E g \in {r[2] : r \in registered} :
         /\ g \notin DOMAIN last_box
         /\ Cardinality({r \in registered : r[2] = g}) > 1
         /\ \A q \in spatial_buckets : q[2] # g
         /\ g \in RemoveTried

\* the probe has solved two balls
BallBallSolved ==
    /\ pc = "solve_collision" /\ probe.solved
    /\ probe.c0.type = "Ball" /\ probe.c1.type = "Ball"
\* the divisor of the solved times: the leading coefficient dv.dv for two
\* balls, n.v for a ball and a wall
SolverDivisor ==
    IF probe.c0.type = "Ball" /\ probe.c1.type = "Ball"
    THEN LET dv == VSub(probe.c0.body.velocity, probe.c1.body.velocity)
         IN Dot(dv, dv)
    ELSE Dot(normal(NarrowWall), NarrowBall.velocity)

\* C22: degenerate inputs give None: two balls of equal velocity, a ball
\* moving parallel to the wall, a ball whose centre is on the wall's line;
\* and whenever the solver returns an interval its divisor is not zero and
\* both times are finite numbers.
C22_DegenerateIsNone ==
    /\ (BallBallSolved /\ probe.c0.body.velocity = probe.c1.body.velocity)
         => probe.result = None
    /\ (BallWallSolved
          /\ (\/ Dot(normal(NarrowWall), NarrowBall.velocity) = 0
              \/ Dot(normal(NarrowWall), VSub(NarrowBall.position, NarrowWall.p0)) = 0))
         => probe.result = None
    /\ (pc = "solve_collision" /\ probe.solved /\ IsSome(probe.result))
         => /\ SolverDivisor # 0
            /\ Unwrap(probe.result)[1] \in Int
            /\ Unwrap(probe.result)[2] \in Int

\* C22 witness: the solver was given a ball off the wall's line that
\* moves parallel to the wall, and returned None.
C22_Witness ==
    /\ BallWallSolved
    /\ Dot(normal(NarrowWall), NarrowBall.velocity) = 0
    /\ NarrowBall.velocity # Vec(0, 0)
    /\ Dot(normal(NarrowWall), VSub(NarrowBall.position, NarrowWall.p0)) # 0
    /\ probe.result = None

\* collide was applied to two balls whose stored generations are current
ValidBallBall ==
    /\ pc = "collide" /\ probe.done
    /\ probe.c0.type = "Ball" /\ probe.c1.type = "Ball"
    /\ probe.g0 = probe.c0.body.collision_generation
    /\ probe.g1 = probe.c1.body.collision_generation
\* the two balls as collide returned them
Resolved0 == Unwrap(Unwrap(probe.result)[1]).ball
Resolved1 == Unwrap(Unwrap(probe.result)[2]).ball
BothUpdated ==
    /\ IsSome(probe.result)
    /\ IsSome(Unwrap(probe.result)[1]) /\ IsSome(Unwrap(probe.result)[2])
\* dot(relV, relP) of the two balls at the time of the event
ProjAtContact ==
    Dot(VSub(probe.c0.body.velocity, probe.c1.body.velocity),
        VSub(PositionAt(probe.c0.body, probe.t), PositionAt(probe.c1.body, probe.t)))
VelocitiesKept ==
    /\ Resolved0.velocity = probe.c0.body.velocity
    /\ Resolved1.velocity = probe.c1.body.velocity

C24_ImpulseOnlyWhenApproaching ==
    ValidBallBall =>
      /\ BothUpdated
      /\ Resolved0.position = PositionAt(probe.c0.body, probe.t)
      /\ Resolved1.position = PositionAt(probe.c1.body, probe.t)
      /\ Resolved0.initial_time = probe.t /\ Resolved1.initial_time = probe.t
      /\ ProjAtContact >= 0 => VelocitiesKept
      /\ ~VelocitiesKept => ProjAtContact < 0

\* C24 witness: two balls that approached when the entry was made touch
\* without approaching any more, after both have moved, and keep their
\* velocities.
C24_Witness ==
    /\ ValidBallBall /\ BothUpdated
    /\ Approaching(probe.c0.body, probe.c1.body)
    /\ probe.t > probe.c0.body.initial_time
    /\ Resolved0.position # probe.c0.body.position
    /\ ProjAtContact >= 0
    /\ VelocitiesKept

\* collide was applied to a ball, whose stored generation is current, and
\* a wall
ValidBallWall ==
    /\ pc = "collide" /\ probe.done
    /\ probe.c0.type # probe.c1.type
    /\ LET stored == IF probe.c0.type = "Ball" THEN probe.g0 ELSE probe.g1
           b == IF probe.c0.type = "Ball" THEN probe.c0.body ELSE probe.c1.body
       IN stored = b.collision_generation
CollideBallBefore == IF probe.c0.type = "Ball" THEN probe.c0.body ELSE probe.c1.body
CollideWallOf == IF probe.c0.type = "Wall" THEN probe.c0.body ELSE probe.c1.body
\* the updates collide returned for the ball and for the wall
BallUpdate ==
    IF probe.c0.type = "Ball" THEN Unwrap(probe.result)[1] ELSE Unwrap(probe.result)[2]
WallUpdate ==
    IF probe.c0.type = "Wall" THEN Unwrap(probe.result)[1] ELSE Unwrap(probe.result)[2]
\* the part of v along the unit vector n, and the rest
NormalPart(v, n) == VMul(n, Dot(v, n))
TangentialPart(v, n) == VSub(v, NormalPart(v, n))

\* C25: resolving a ball-wall event reflects the velocity about the wall
\* normal, v' = v - 2 (v.n) n, if v.n < 0: the normal component is negated,
\* the tangential component and the speed are kept; if v.n >= 0 the
\* velocity is unchanged. The wall gets no update.
C25_WallReflection ==
    ValidBallWall =>
      /\ IsSome(probe.result) /\ IsSome(BallUpdate) /\ WallUpdate = None
      /\ LET n == normal(CollideWallOf)
             v == CollideBallBefore.velocity
             w == Unwrap(BallUpdate).ball.velocity
         IN IF Dot(v, n) < 0
            THEN /\ w = VSub(v, VMul(n, 2 * Dot(v, n)))
                 /\ Dot(w, n) = -Dot(v, n)
                 /\ TangentialPart(w, n) = TangentialPart(v, n)
                 /\ Dot(w, w) = Dot(v, v)
            ELSE w = v

\* C25 witness: a ball moving obliquely towards a wall was reflected; its
\* tangential component is not zero and its velocity has changed.
C25_Witness ==
    /\ ValidBallWall /\ IsSome(probe.result) /\ IsSome(BallUpdate)
    /\ Dot(CollideBallBefore.velocity, normal(CollideWallOf)) < 0
    /\ TangentialPart(CollideBallBefore.velocity, normal(CollideWallOf)) # Vec(0, 0)
    /\ Unwrap(BallUpdate).ball.velocity # CollideBallBefore.velocity

SpeedSquared(v) == Dot(v, v)

\* C26: after a ball-ball resolution the speed of each of the two balls is
\* at most the cap of 1000 units per time.
C26_SpeedCapped ==
    ValidBallBall =>
      /\ BothUpdated
      /\ SpeedSquared(Resolved0.velocity) <= SPEED_CAP * SPEED_CAP
      /\ SpeedSquared(Resolved1.velocity) <= SPEED_CAP * SPEED_CAP

\* C26 witness: a fast heavy ball hit a light ball at rest; the light
\* ball leaves at exactly the cap, in the direction of the impulse, and
\* the heavy ball, slowed down, below it.
C26_Witness ==
    /\ ValidBallBall /\ BothUpdated /\ ~VelocitiesKept
    /\ \E fast, slow \in {Resolved0, Resolved1} :
         /\ fast.radius < slow.radius
         /\ SpeedSquared(fast.velocity) = SPEED_CAP * SPEED_CAP
         /\ SpeedSquared(slow.velocity) < SPEED_CAP * SPEED_CAP
         /\ SpeedSquared(slow.velocity) > 0

\* mass is radius squared
Mass(b) == b.radius * b.radius
Momentum(b0, b1) == VAdd(VMul(b0.velocity, Mass(b0)), VMul(b1.velocity, Mass(b1)))
\* twice the kinetic energy
Energy(b0, b1) ==
    Mass(b0) * SpeedSquared(b0.velocity) + Mass(b1) * SpeedSquared(b1.velocity)
Cross(u, v) == u[1] * v[2] - u[2] * v[1]
\* the line of centres at the time of the event
CentresAtContact ==
    VSub(PositionAt(probe.c0.body, probe.t), PositionAt(probe.c1.body, probe.t))
\* an impulse was applied and neither velocity was cut to the cap
ImpulseUncapped ==
    /\ ValidBallBall /\ BothUpdated /\ ~VelocitiesKept
    /\ SpeedSquared(Resolved0.velocity) < SPEED_CAP * SPEED_CAP
    /\ SpeedSquared(Resolved1.velocity) < SPEED_CAP * SPEED_CAP

\* C27: a ball-ball resolution that applies an impulse, with no speed cut
\* to the cap, keeps the total momentum r0^2 v0 + r1^2 v1 and the kinetic
\* energy, and changes each velocity along the line of centres only.
C27_ElasticMomentum ==
    ImpulseUncapped =>
      /\ Momentum(Resolved0, Resolved1) = Momentum(probe.c0.body, probe.c1.body)
      /\ Energy(Resolved0, Resolved1) = Energy(probe.c0.body, probe.c1.body)
      /\ Cross(VSub(Resolved0.velocity, probe.c0.body.velocity), CentresAtContact) = 0
      /\ Cross(VSub(Resolved1.velocity, probe.c1.body.velocity), CentresAtContact) = 0

\* C27 witness: two balls of different radius met and both velocities
\* changed, below the cap.
C27_Witness ==
    /\ ImpulseUncapped
    /\ probe.c0.body.radius # probe.c1.body.radius
    /\ Resolved0.velocity # probe.c0.body.velocity
    /\ Resolved1.velocity # probe.c1.body.velocity

\* ways of reordering the registration: the rotations, the rotations of
\* the reversed order, and the exchanges of two places
PlacesOf == 1..(NumBalls + 4)
PermutationsTried ==
    {[i \in PlacesOf |-> ((i + k - 1) % (NumBalls + 4)) + 1] : k \in PlacesOf}
      \cup {[i \in PlacesOf |-> ((NumBalls + 4 - i + k) % (NumBalls + 4)) + 1] :
              k \in PlacesOf}
      \cup {[i \in PlacesOf |-> IF i = a THEN b ELSE IF i = b THEN a ELSE i] :
              a, b \in PlacesOf}
OrdersTried ==
    {[i \in PlacesOf |-> detection_order(ball)[perm[i]]] : perm \in PermutationsTried}
\* the detection pass run on this state with the bodies in the given order
DetectedIn(order) ==
    add_in_order(collision_cleared(Data), ball, wall, order, 1, time, next_time)
\* the unordered pairs with an entry, each with the time of its entry
PairsAndTimes(cd) ==
    {<<{e.item[1], e.item[2]}, e.entry_time>> : e \in cd.collisions_events}

\* C28: the detection pass gives the same unordered pairs their entries,
\* at the same times, in whatever order the bodies are registered; the
\* buckets and the cell ranges are the same as well.
C28_DetectionOrderIndependent ==
    pc = "collision" =>
      \A order \in OrdersTried :
        LET permuted == DetectedIn(order)
            standard == DetectedIn(detection_order(ball))
        IN /\ PairsAndTimes(permuted) = PairsAndTimes(standard)
           /\ Cardinality(permuted.collisions_events)
                = Cardinality(standard.collisions_events)
           /\ permuted.spatial_buckets = standard.spatial_buckets
           /\ permuted.last_box = standard.last_box

\* C28 witness: a detection pass of the second frame finds a ball-ball and
\* a ball-wall pair, and some order lists the members of a pair the other
\* way round.
C28_Witness ==
    /\ pc = "collision" /\ frame = 2
    /\ \E e, f \in DetectedIn(detection_order(ball)).collisions_events :
         /\ e.item[1].collision_type = "Wall"
         /\ f.item[1].collision_type = "Ball" /\ f.item[2].collision_type = "Ball"
    /\ \E order \in OrdersTried :
         DetectedIn(order).collisions_events
           # DetectedIn(detection_order(ball)).collisions_events

\* C29: a step that resolves an entry at time tc leaves each ball of the
\* entry with initial_time = tc, at its position before the step plus its
\* velocity before the step times (tc - initial_time before the step).
C29_SnapToCollisionInstant ==
    [][\A k \in ResolvedBalls :
         LET tc == Last(processed').collision_time
         IN /\ ball'[k].initial_time = tc
            /\ ball'[k].position =
                 VAdd(ball[k].position,
                      VMul(ball[k].velocity, tc - ball[k].initial_time))]_vars

\* C29 witness: the last entry was resolved inside the frame; one of its
\* balls has moved to the collision instant, as its trail shows, and left
\* with a new velocity.
C29_Witness ==
    /\ pc = "collision_handle" /\ Len(processed) >= 1
    /\ ~Last(processed).discarded
    /\ Last(processed).collision_time > time
    /\ \E k \in EntityPair(Last(processed).item) \cap BallIds :
         /\ ball[k].initial_time = Last(processed).collision_time
         /\ trails[k] # <<>>
         /\ Last(trails[k]).final_time = ball[k].initial_time
         /\ Last(trails[k]).position1 = ball[k].position
         /\ Last(trails[k]).position0 # ball[k].position
         /\ VMul(ball[k].velocity, Last(trails[k]).final_time - Last(trails[k]).initial_time)
              # VSub(Last(trails[k]).position1, Last(trails[k]).position0)

\* C30: time does not run backwards inside a frame: every queued entry
\* has its time in [time, next_time], and a step that resolves an entry
\* at t finds each of its balls with initial_time <= t <= next_time; the
\* bulk advance likewise never targets a time before a ball's own.
C30_TimeNeverBackwards ==
    /\ [](/\ \A e \in collisions_events :
               /\ time <= e.entry_time /\ e.entry_time <= next_time
               /\ e.priority = -e.entry_time
          /\ pc \in {"collision_handle", "advance_balls"} =>
               \A k \in BallIds :
                 time <= ball[k].initial_time /\ ball[k].initial_time <= next_time)
    /\ [][\A k \in ResolvedBalls :
            /\ ball[k].initial_time <= Last(processed').collision_time
            /\ Last(processed').collision_time <= next_time
            /\ ball[k].initial_time <= ball'[k].initial_time]_vars

\* C30 witness: in the second frame a ball already resolved inside the
\* frame was resolved again at a later time, still within the frame,
\* while further entries wait in the queue.
C30_Witness ==
    /\ pc = "collision_handle" /\ frame = 2 /\ collisions_events # {}
    /\ \E i, j \in 1..Len(processed) :
         /\ i < j /\ ~processed[i].discarded /\ ~processed[j].discarded
         /\ EntityPair(processed[i].item) \cap EntityPair(processed[j].item) \cap BallIds # {}
         /\ time < processed[i].collision_time
         /\ processed[i].collision_time < processed[j].collision_time
         /\ processed[j].collision_time <= next_time

\* the pair was solved and the same pair handed over the other way round
\* gives this result
SolvedSwapped == solve_collision(probe.c1, probe.c0)

\* C31: the narrow-phase solver is symmetric in its arguments: solve(A, B)
\* and solve(B, A) are both None or both the same interval, for ball-ball,
\* ball-wall and wall-ball pairs (and None both ways for two walls).
C31_SolverSymmetric ==
    (pc = "solve_collision" /\ probe.solved) =>
        /\ IsSome(probe.result) <=> IsSome(SolvedSwapped)
        /\ probe.result = SolvedSwapped

\* C31 witness: a wall given first and a ball given second were solved to
\* an interval, the one the ball given first and the wall second get.
C31_Witness ==
    /\ pc = "solve_collision" /\ probe.solved
    /\ probe.c0.type = "Wall" /\ probe.c1.type = "Ball"
    /\ IsSome(probe.result)
    /\ probe.result = solve_collision_ball_wall(probe.c1.body, probe.c0.body)

\* C32: the result of the ball-ball solver does not depend on the instant
\* at which a ball is pinned: with one ball replaced by its state at a time
\* between its initial_time and the entry time of the pair, the solver
\* returns what it returned before, the same decision and the same times.
C32_PinInstantIrrelevant ==
    (pc = "pin" /\ probe.pinned) => probe.result = probe.first

\* the entry the step resolved, and its two bodies as the step leaves them
ResolvedItem == Last(processed').item
PostResolution(i) == fetch_collidable_copy(ball', wall', ResolvedItem[i])
\* the step resolved an entry and changed the velocity of one of its balls
ResolvedWithImpulse ==
    /\ HandledOne /\ ~Last(processed').discarded
    /\ \E k \in ResolvedBalls : ball'[k].velocity # ball[k].velocity
\* the stored generations of a queued entry are the ones the balls have
\* after the step
CurrentAfter(g) ==
    g.collision_type = "Wall" \/ ball'[g.entity].collision_generation = g.generation
\* the entries of the queue after the step that pair the two entities again
RequeuedPair ==
    {e \in collisions_events' : EntityPair(e.item) = EntityPair(ResolvedItem)}

\* C33 as stated: after a step that resolves a contact with an impulse or a
\* reflection, the pair solved from its states after the step gives None,
\* and the step has pushed no entry for that pair.
C33_NoEntryForPair ==
    [][ResolvedWithImpulse =>
         /\ solve_collision(PostResolution(1), PostResolution(2)) = None
         /\ RequeuedPair = {}]_vars

\* C33 amended: after such a step the pair solved from its states after
\* the step gives None, and every entry the queue holds for the pair is
\* stale: it stores a generation one of the balls no longer has.
C33_NoValidEntryForPair ==
    [][ResolvedWithImpulse =>
         /\ solve_collision(PostResolution(1), PostResolution(2)) = None
         /\ \A e \in RequeuedPair : ~CurrentAfter(e.item[1]) \/ ~CurrentAfter(e.item[2])]_vars

\* C33 witness: two balls met and left with new velocities; solved as they
\* are now they give None, and the queue holds an entry for the two, made
\* at the time of the contact while only the first was updated, that is
\* stale.
C33_Witness ==
    /\ pc = "collision_handle" /\ Len(processed) >= 1
    /\ ~Last(processed).discarded
    /\ Last(processed).item[1].collision_type = "Ball"
    /\ Last(processed).item[2].collision_type = "Ball"
    /\ \A k \in EntityPair(Last(processed).item) :
         /\ ball[k].initial_time = Last(processed).collision_time
         /\ ball[k].collision_generation >= 1
    /\ solve_collision(fetch_collidable_copy(ball, wall, Last(processed).item[1]),
                       fetch_collidable_copy(ball, wall, Last(processed).item[2])) = None
    /\ \E e \in collisions_events :
         /\ EntityPair(e.item) = EntityPair(Last(processed).item)
         /\ e.entry_time = Last(processed).collision_time
         /\ StaleEntry(e)

\* C34: no event pairs an entity with itself: the two entity references of
\* every queued entry, and of every entry the handling loop has popped, are
\* different entities.
C34_NoSelfPair ==
    /\ \A e \in collisions_events : e.item[1].entity # e.item[2].entity
    /\ \A i \in 1..Len(processed) : processed[i].item[1].entity # processed[i].item[2].entity

\* C34 witness: a ball resolved in this pass was registered again in cells
\* it had occupied before, and the queue holds an entry that pairs it, under
\* its new generation, with another body.
C34_Witness ==
    /\ pc = "collision_handle" /\ Len(processed) >= 1
    /\ \E e \in collisions_events :
         /\ e.item[1].generation >= 1
         /\ e.item[1].entity \in EntityPair(Last(processed).item)
         /\ \E c \in CellsEverOf(e.item[1].entity) :
              /\ <<c, e.item[1]>> \in spatial_buckets
              /\ <<c, [e.item[1] EXCEPT !.generation = @ - 1]>> \in registered
         /\ Cardinality(EntityPair(e.item)) = 2

\* the queued entries for the pair of entities of e whose stored
\* generations are both current
ValidFor(e) ==
    {f \in collisions_events :
       /\ EntityPair(f.item) = EntityPair(e.item)
       /\ ~StaleEntry(f)}

\* C35: after detection and after every handled event the queue holds, for
\* each unordered pair of entities, at most one entry whose two stored
\* generations are both current; every other entry for the pair is stale
\* and collide discards it.
C35_OneValidEntryPerPair ==
    pc = "collision_handle" =>
      \A e \in collisions_events :
        /\ Cardinality(ValidFor(e)) <= 1
        /\ StaleEntry(e) => is_discarded(ball, wall, e)
        /\ ~StaleEntry(e) => ValidFor(e) = {e}

\* C35 witness: after a handled event the queue holds two entries for one
\* pair of balls, one of them valid and one stale.
C35_Witness ==
    /\ pc = "collision_handle" /\ Len(processed) >= 1
    /\ \E e, f \in collisions_events :
         /\ e # f
         /\ EntityPair(e.item) = EntityPair(f.item)
         /\ EntityPair(e.item) \subseteq BallIds
         /\ ~StaleEntry(e) /\ StaleEntry(f)

\* the pairs of entries of greatest priority, both valid, that involve
\* four different bodies
TiedIndependent ==
    {p \in poppable(collisions_events) \X poppable(collisions_events) :
       /\ ~StaleEntry(p[1]) /\ ~StaleEntry(p[2])
       /\ Cardinality(EntityPair(p[1].item) \cup EntityPair(p[2].item)) = 4}
\* the balls at the end of the handling pass when the loop pops e next
BallsAfter(e) ==
    {r.ball : r \in pass_ends(handled(HandlerNow, e, next_time), next_time)}

\* C36: when two valid entries of the same time involve four different
\* bodies, handling one or the other first leaves every ball with the same
\* position, velocity, initial_time and generation at the end of the
\* handling pass.
C36_TieOrderIrrelevant ==
    pc = "collision_handle" =>
      \A p \in TiedIndependent :
        /\ BallsAfter(p[1]) = BallsAfter(p[2])
        /\ Cardinality(BallsAfter(p[1])) = 1

\* C36 witness: a ball-ball entry and a ball-wall entry of the same time,
\* both valid, wait in the queue, and whichever is handled first the pass
\* ends with the velocities of all three balls changed.
C36_Witness ==
    /\ pc = "collision_handle"
    /\ \E p \in TiedIndependent :
         /\ EntityPair(p[1].item) \subseteq BallIds
         /\ EntityPair(p[2].item) \cap WallIds # {}
         /\ time < p[1].entry_time /\ p[1].entry_time < next_time
         /\ \A r \in BallsAfter(p[1]) \cup BallsAfter(p[2]) :
              \A k \in BallIds : r[k].velocity # ball[k].velocity

\* the trail log tr is a chain of segments of positive duration from time
\* t0 to time t1, each starting when and where the one before ended
Chain(tr, t0, t1) ==
    /\ Len(tr) >= 1
    /\ tr[1].initial_time = t0
    /\ tr[Len(tr)].final_time = t1
    /\ \A i \in 1..Len(tr) : tr[i].final_time > tr[i].initial_time
    /\ \A i \in 1..(Len(tr) - 1) :
         /\ tr[i + 1].initial_time = tr[i].final_time
         /\ tr[i + 1].position0 = tr[i].position1

====
